---- MODULE Spec2Model ----
(***************************************************************************)
(* Configuration centre of the nutrition platform                          *)
(* (backend/app/services/config.py): the ConfigVersion life cycle           *)
(* DRAFT -> APPROVED -> DEPLOYING -> ACTIVE -> ROLLED_BACK, the audit log   *)
(* written by every operation, and one-click rollback.                      *)
(*                                                                         *)
(* The database is modelled by two tables: configs (config_versions, the    *)
(* primary key of a row is its index) and audit (audit_logs, in insertion   *)
(* order).  ConfigService calls run one at a time.  Each method is an        *)
(* operator from the database it reads to the database it commits and the   *)
(* value it returns or the error it raises; an action is one such call.     *)
(* Opaque columns (content, change_reason, operator_id, ip_address,         *)
(* created_at) do not influence any branch and are left out.                *)
(***************************************************************************)
EXTENDS Integers, Sequences, FiniteSets, TLC

\* the configuration centre
VARIABLES configs, audit, result

\* gray release (should_apply_config), the review queue, the recommendation
\* pipeline, and ConfigService calls running concurrently
VARIABLES gray, queue, rec, txn

\* the rule engine and the hybrid scoring engine, applied to one request
VARIABLES rules, scoring

\* requests on the event loop that call the LLM, the ai_usage table with the
\* sessions of concurrent submissions, and the OTP store with its callers
VARIABLES grok, usage, otps

configVars == <<configs, audit, result>>

serviceVars == <<grok, usage, otps>>

vars == <<configs, audit, result, gray, queue, rec, txn, rules, scoring,
          grok, usage, otps>>

(* ------------------------------ bounds --------------------------------- *)

\* rows of config_versions and of audit_logs that Spec lets the calls write
MaxVersions == 2

MaxAudit == 11

\* the same for SpecRollout
MaxRolloutVersions == 2

MaxRolloutAudit == 11

\* SpecHistory: versions deployed before the first call, and rows of
\* audit_logs written by the calls
MaxHistoryVersions == 4

MaxHistoryRows == 9

\* SpecDrafts: calls of create_draft
MaxDrafts == 4

(* ----------------------------- constants ------------------------------- *)

ConfigType == {"ruleset", "weights", "prompts", "model_config", "feature_flags"}

\* the config types of the calls where two are enough to tell types apart
SomeTypes == {"ruleset", "weights"}

ConfigStatus == {"DRAFT", "APPROVED", "DEPLOYING", "ACTIVE", "ROLLED_BACK"}

AuditAction == {"CREATE", "UPDATE", "APPROVE", "DEPLOY", "ACTIVATE", "ROLLBACK"}

VALID_TRANSITIONS ==
    [s \in ConfigStatus |->
        CASE s = "DRAFT"       -> {"APPROVED"}
          [] s = "APPROVED"    -> {"DEPLOYING"}
          [] s = "DEPLOYING"   -> {"ACTIVE"}
          [] s = "ACTIVE"      -> {"ROLLED_BACK"}
          [] s = "ROLLED_BACK" -> {}]

\* rollout_percent written by create_draft
DraftPercent == 0

\* rollout_percent written by activate_config and rollback_config
FullPercent == 100

\* the rollout_percent handed to deploy_config where the percentage is not
\* what is examined
DeployPercents == {50}

\* rollout_percent arguments below, inside and above the range 0..100
PercentInputs == {-5, 50, 130}

\* a key that a before_value / after_value dictionary does not hold
NoStatus == "NONE"

NoPercent == -1

\* the value None of an Optional[ConfigVersion]
None == 0

(* ------------------------------ helpers -------------------------------- *)

Max(a, b) == IF a >= b THEN a ELSE b

Min(a, b) == IF a <= b THEN a ELSE b

Ids(cfgs) == DOMAIN cfgs

\* the row of S with the largest version number (ORDER BY version DESC LIMIT 1)
FirstByVersionDesc(cfgs, S) ==
    IF S = {} THEN None
    ELSE CHOOSE i \in S : \A j \in S : cfgs[j].version <= cfgs[i].version

_validate_transition_any(current_status, target_status) ==
    VALID_TRANSITIONS[current_status] # {}

_validate_transition(current_status, target_status) ==
    target_status \in VALID_TRANSITIONS[current_status]

AuditRow(id, action, bs, bp, as, ap) ==
    [config_version_id |-> id, action |-> action,
     before_status |-> bs, before_percent |-> bp,
     after_status |-> as, after_percent |-> ap]

get_active_config(cfgs, config_type) ==
    FirstByVersionDesc(cfgs,
        {i \in Ids(cfgs) : /\ cfgs[i].config_type = config_type
                           /\ cfgs[i].status = "ACTIVE"})

get_config_by_id(cfgs, version_id) ==
    IF version_id \in Ids(cfgs) THEN version_id ELSE None

get_latest_version_number_any_type(cfgs, config_type) ==
    LET i == FirstByVersionDesc(cfgs, Ids(cfgs))
    IN  IF i = None THEN 0 ELSE cfgs[i].version

get_latest_version_number(cfgs, config_type) ==
    LET i == FirstByVersionDesc(cfgs,
                {j \in Ids(cfgs) : cfgs[j].config_type = config_type})
    IN  IF i = None THEN 0 ELSE cfgs[i].version

(* ------------------------------ results -------------------------------- *)

Returned(op, arg, id) ==
    [op |-> op, arg |-> arg, outcome |-> "ok", ret |-> id,
     current_status |-> NoStatus, target_status |-> NoStatus]

ConfigNotFoundError(op, arg) ==
    [op |-> op, arg |-> arg, outcome |-> "ConfigNotFoundError", ret |-> None,
     current_status |-> NoStatus, target_status |-> NoStatus]

InvalidStateTransitionError(op, arg, current_status, target_status) ==
    [op |-> op, arg |-> arg, outcome |-> "InvalidStateTransitionError",
     ret |-> None,
     current_status |-> current_status, target_status |-> target_status]

NoPreviousActiveVersionError(op, arg) ==
    [op |-> op, arg |-> arg, outcome |-> "NoPreviousActiveVersionError",
     ret |-> None,
     current_status |-> NoStatus, target_status |-> NoStatus]

\* a call that commits both tables and returns
Commit(cfgs, log, res) == [configs |-> cfgs, audit |-> log, result |-> res]

\* a call that raises before it has written anything
Raise(db, err) == [configs |-> db.configs, audit |-> db.audit, result |-> err]

(* ------------------------------ methods -------------------------------- *)

create_draft(db, config_type) ==
    LET new_version == get_latest_version_number(db.configs, config_type) + 1
        id == Len(db.configs) + 1
    IN  Commit(Append(db.configs,
                      [config_type |-> config_type,
                       version |-> new_version,
                       status |-> "DRAFT",
                       rollout_percent |-> DraftPercent]),
               Append(db.audit,
                      AuditRow(id, "CREATE", NoStatus, NoPercent,
                               NoStatus, NoPercent)),
               Returned("create_draft", config_type, id))

approve_config(db, version_id) ==
    LET config == get_config_by_id(db.configs, version_id) IN
    IF config = None
    THEN Raise(db, ConfigNotFoundError("approve_config", version_id))
    ELSE IF ~_validate_transition(db.configs[config].status, "APPROVED")
    THEN Raise(db, InvalidStateTransitionError("approve_config", version_id,
                       db.configs[config].status, "APPROVED"))
    ELSE Commit([db.configs EXCEPT ![config].status = "APPROVED"],
                Append(db.audit,
                       AuditRow(config, "APPROVE",
                                db.configs[config].status, NoPercent,
                                "APPROVED", NoPercent)),
                Returned("approve_config", version_id, config))

ClampPercent_raw(rollout_percent) == rollout_percent

ClampPercent(rollout_percent) == Max(0, Min(100, rollout_percent))

deploy_config(db, version_id, rollout_percent) ==
    LET config == get_config_by_id(db.configs, version_id) IN
    IF config = None
    THEN Raise(db, ConfigNotFoundError("deploy_config", version_id))
    ELSE IF ~_validate_transition(db.configs[config].status, "DEPLOYING")
    THEN Raise(db, InvalidStateTransitionError("deploy_config", version_id,
                       db.configs[config].status, "DEPLOYING"))
    ELSE Commit([db.configs EXCEPT
                    ![config].status = "DEPLOYING",
                    ![config].rollout_percent = ClampPercent(rollout_percent)],
                Append(db.audit,
                       AuditRow(config, "DEPLOY",
                                db.configs[config].status,
                                db.configs[config].rollout_percent,
                                "DEPLOYING", ClampPercent(rollout_percent))),
                Returned("deploy_config", version_id, config))

\* the orders in which a SELECT without ORDER BY may return the rows of S
Orders(S) ==
    {f \in [1..Cardinality(S) -> S] :
        \A i, j \in 1..Cardinality(S) : i # j => f[i] # f[j]}

old_active_configs_none(cfgs, config) == {}

old_active_configs_any_type(cfgs, config) ==
    {i \in Ids(cfgs) : /\ cfgs[i].status = "ACTIVE"
                       /\ i # config}

old_active_configs(cfgs, config) ==
    {i \in Ids(cfgs) : /\ cfgs[i].config_type = cfgs[config].config_type
                       /\ cfgs[i].status = "ACTIVE"
                       /\ i # config}

DemotionRow_stale(old_config) ==
    AuditRow(old_config, "ROLLBACK", "DEPLOYING", NoPercent,
             "ACTIVE", NoPercent)

DemotionRow(old_config) ==
    AuditRow(old_config, "ROLLBACK", "ACTIVE", NoPercent,
             "ROLLED_BACK", NoPercent)

ActivatedPercent_kept(current) == current

\* config.rollout_percent = 100, whatever it was
ActivatedPercent(current) == FullPercent

\* order: the order in which the SELECT returned old_active_configs
activate_config(db, version_id, order) ==
    LET config == get_config_by_id(db.configs, version_id) IN
    IF config = None
    THEN Raise(db, ConfigNotFoundError("activate_config", version_id))
    ELSE IF ~_validate_transition(db.configs[config].status, "ACTIVE")
    THEN Raise(db, InvalidStateTransitionError("activate_config", version_id,
                       db.configs[config].status, "ACTIVE"))
    ELSE LET old == old_active_configs(db.configs, config) IN
         Commit([i \in Ids(db.configs) |->
                    IF i \in old
                    THEN [db.configs[i] EXCEPT !.status = "ROLLED_BACK"]
                    ELSE IF i = config
                    THEN [db.configs[i] EXCEPT
                            !.status = "ACTIVE",
                            !.rollout_percent =
                                ActivatedPercent(db.configs[i].rollout_percent)]
                    ELSE db.configs[i]],
                db.audit
                  \o [k \in 1..Cardinality(old) |-> DemotionRow(order[k])]
                  \o << AuditRow(config, "ACTIVATE",
                                 db.configs[config].status, NoPercent,
                                 "ACTIVE", FullPercent) >>,
                Returned("activate_config", version_id, config))

\* the orders activate_config may meet for version_id (one, the empty
\* order, when the call raises)
ActivationOrders(db, version_id) ==
    IF get_config_by_id(db.configs, version_id) = None
    THEN Orders({})
    ELSE Orders(old_active_configs(db.configs, version_id))

previous_version_lowest(cfgs, config_type) ==
    LET S == {i \in Ids(cfgs) : /\ cfgs[i].config_type = config_type
                                /\ cfgs[i].status = "ROLLED_BACK"}
    IN  IF S = {} THEN None
        ELSE CHOOSE i \in S : \A j \in S : cfgs[j].version >= cfgs[i].version

previous_version_not_active(cfgs, config_type) ==
    FirstByVersionDesc(cfgs,
        {i \in Ids(cfgs) : /\ cfgs[i].config_type = config_type
                           /\ cfgs[i].status # "ACTIVE"})

previous_version(cfgs, config_type) ==
    FirstByVersionDesc(cfgs,
        {i \in Ids(cfgs) : /\ cfgs[i].config_type = config_type
                           /\ cfgs[i].status = "ROLLED_BACK"})

rollback_config(db, config_type) ==
    LET current_active == get_active_config(db.configs, config_type)
        previous == previous_version(db.configs, config_type)
    IN
    IF previous = None
    THEN Raise(db, NoPreviousActiveVersionError("rollback_config", config_type))
    ELSE Commit([i \in Ids(db.configs) |->
                    IF i = previous
                    THEN [db.configs[i] EXCEPT !.status = "ACTIVE",
                                               !.rollout_percent = FullPercent]
                    ELSE IF i = current_active
                    THEN [db.configs[i] EXCEPT !.status = "ROLLED_BACK"]
                    ELSE db.configs[i]],
                db.audit
                  \o (IF current_active # None
                      THEN << DemotionRow(current_active) >>
                      ELSE << >>)
                  \o << AuditRow(previous, "ACTIVATE",
                                 "ROLLED_BACK", NoPercent,
                                 "ACTIVE", FullPercent) >>,
                Returned("rollback_config", config_type, previous))

(* ------------------------------- state --------------------------------- *)

\* the database the next call reads
Db == [configs |-> configs, audit |-> audit]

\* the empty database, before any call
EmptyDb ==
    Commit(<< >>, << >>,
           [op |-> "init", arg |-> None, outcome |-> "ok", ret |-> None,
            current_status |-> NoStatus, target_status |-> NoStatus])

\* the database after n versions (the first of weights, the others of
\* ruleset) have been created, approved and deployed, one after the other
RECURSIVE DeployedDb(_)
DeployedDb(n) ==
    IF n = 0 THEN EmptyDb
    ELSE deploy_config(
             approve_config(
                 create_draft(DeployedDb(n - 1),
                              IF n = 1 THEN "weights" ELSE "ruleset"),
                 n),
             n, CHOOSE p \in DeployPercents : TRUE)

\* the value of a variable in the specifications that do not involve it
Unused == "unused"

Starts(db) ==
    /\ configs = db.configs
    /\ audit = db.audit
    /\ grok = Unused
    /\ usage = Unused
    /\ otps = Unused
    /\ result = db.result
    /\ gray = Unused
    /\ queue = Unused
    /\ rec = Unused
    /\ txn = Unused
    /\ rules = Unused
    /\ scoring = Unused

\* one call: the tables it committed and what it returned or raised
Call(after) ==
    /\ configs' = after.configs
    /\ audit' = after.audit
    /\ result' = after.result
    /\ UNCHANGED <<gray, queue, rec, txn, rules, scoring, serviceVars>>

Init == Starts(EmptyDb)

InitHistory == Starts(DeployedDb(MaxHistoryVersions))

(* --------------------------- specifications ---------------------------- *)

\* the call leaves config_versions within v rows and audit_logs within a rows
Within(v, a) == Len(configs') <= v /\ Len(audit') <= a

\* the call returned instead of raising
Succeeds == result'.outcome = "ok"

\* Spec: any call on any version id (known or not) of two config types
Next ==
    \/ \E t \in SomeTypes :
          Call(create_draft(Db, t)) /\ Within(MaxVersions, MaxAudit)
    \/ \E id \in 1..MaxVersions :
          Call(approve_config(Db, id)) /\ Within(MaxVersions, MaxAudit)
    \/ \E id \in 1..MaxVersions, p \in DeployPercents :
          Call(deploy_config(Db, id, p)) /\ Within(MaxVersions, MaxAudit)
    \/ \E id \in 1..MaxVersions : \E order \in ActivationOrders(Db, id) :
          Call(activate_config(Db, id, order))
             /\ Within(MaxVersions, MaxAudit)
    \/ \E t \in SomeTypes :
          Call(rollback_config(Db, t)) /\ Within(MaxVersions, MaxAudit)

Spec == Init /\ [][Next]_vars

\* SpecRollout: the calls that return, on one config type, deployed at any
\* percentage
NextRollout ==
    \/ /\ Call(create_draft(Db, "ruleset"))
       /\ Within(MaxRolloutVersions, MaxRolloutAudit)
    \/ \E id \in 1..MaxRolloutVersions :
          /\ Call(approve_config(Db, id))
          /\ Succeeds /\ Within(MaxRolloutVersions, MaxRolloutAudit)
    \/ \E id \in 1..MaxRolloutVersions, p \in PercentInputs :
          /\ Call(deploy_config(Db, id, p))
          /\ Succeeds /\ Within(MaxRolloutVersions, MaxRolloutAudit)
    \/ \E id \in 1..MaxRolloutVersions :
       \E order \in ActivationOrders(Db, id) :
          /\ Call(activate_config(Db, id, order))
          /\ Succeeds /\ Within(MaxRolloutVersions, MaxRolloutAudit)
    \/ /\ Call(rollback_config(Db, "ruleset"))
       /\ Succeeds /\ Within(MaxRolloutVersions, MaxRolloutAudit)

SpecRollout == Init /\ [][NextRollout]_vars

\* SpecHistory: MaxHistoryVersions versions wait in DEPLOYING; they are
\* activated in any order and their config types rolled back at any time
HistoryAudit == 3 * MaxHistoryVersions + MaxHistoryRows

NextHistory ==
    \/ \E id \in 1..MaxHistoryVersions :
       \E order \in ActivationOrders(Db, id) :
          /\ Call(activate_config(Db, id, order))
          /\ Within(MaxHistoryVersions, HistoryAudit)
    \/ \E t \in SomeTypes :
          /\ Call(rollback_config(Db, t))
          /\ Within(MaxHistoryVersions, HistoryAudit)

SpecHistory == InitHistory /\ [][NextHistory]_vars

\* SpecDrafts: any sequence of create_draft calls, of every config type
NextDrafts ==
    \E t \in ConfigType :
       Call(create_draft(Db, t)) /\ Within(MaxDrafts, MaxDrafts)

SpecDrafts == Init /\ [][NextDrafts]_vars

(* ------------------------------ properties ----------------------------- *)

OfType(cfgs, t) == {i \in Ids(cfgs) : cfgs[i].config_type = t}

InStatus(cfgs, t, status) == {i \in OfType(cfgs, t) : cfgs[i].status = status}

\* the rows a call appended to audit_logs
NewRows == SubSeq(audit', Len(audit) + 1, Len(audit'))

RowsOf(log, i) == SelectSeq(log, LAMBDA r : r.config_version_id = i)

\* the step is a call of op that returned
ReturnedFrom(op) == result'.op = op /\ result'.outcome = "ok"

\* C1: every config_type has at most one ACTIVE version.
OneActivePerType ==
    \A t \in ConfigType : Cardinality(InStatus(configs, t, "ACTIVE")) <= 1

\* a rollback has returned and its config_type has an ACTIVE version next to
\* a ROLLED_BACK one
OneActiveAfterRollback ==
    /\ result.op = "rollback_config"
    /\ result.outcome = "ok"
    /\ InStatus(configs, result.arg, "ACTIVE") # {}
    /\ InStatus(configs, result.arg, "ROLLED_BACK") # {}

\* C2: every change of a version's status is one step along
\* DRAFT -> APPROVED -> DEPLOYING -> ACTIVE -> ROLLED_BACK, so a version that
\* is ROLLED_BACK keeps that status.
StatusFollowsLifecycle ==
    [][\A i \in Ids(configs) :
          configs'[i].status # configs[i].status
             => configs'[i].status \in VALID_TRANSITIONS[configs[i].status]]_vars

\* the status a call needs to find, and the status it moves the version to
RequiredStatus(op) ==
    CASE op = "approve_config"  -> "DRAFT"
      [] op = "deploy_config"   -> "APPROVED"
      [] op = "activate_config" -> "DEPLOYING"

TargetStatus(op) ==
    CASE op = "approve_config"  -> "APPROVED"
      [] op = "deploy_config"   -> "DEPLOYING"
      [] op = "activate_config" -> "ACTIVE"

\* C3: approve_config returns only on DRAFT, deploy_config only on APPROVED,
\* activate_config only on DEPLOYING; on any other status of a known version
\* the call raises InvalidStateTransitionError with the current and the target
\* status and both tables stay as they were.
TransitionsAreGated ==
    [][\A op \in {"approve_config", "deploy_config", "activate_config"} :
          (result'.op = op /\ result'.arg \in Ids(configs))
             => LET current == configs[result'.arg].status IN
                IF current = RequiredStatus(op)
                THEN /\ result'.outcome = "ok"
                     /\ configs'[result'.arg].status = TargetStatus(op)
                ELSE /\ result'.outcome = "InvalidStateTransitionError"
                     /\ result'.current_status = current
                     /\ result'.target_status = TargetStatus(op)
                     /\ configs' = configs
                     /\ audit' = audit]_vars

\* activate_config on a DRAFT has raised, after some version was activated
SkipAheadRaised ==
    /\ result.op = "activate_config"
    /\ result.outcome = "InvalidStateTransitionError"
    /\ result.current_status = "DRAFT"
    /\ \E i \in Ids(configs) : configs[i].status = "ACTIVE"

\* C4: after activate_config(v) returns, v is the only ACTIVE version of its
\* config_type, every other version of the type that was ACTIVE is
\* ROLLED_BACK and has exactly one new audit row, ACTIVE -> ROLLED_BACK, and
\* the versions of the other config_types are as they were.
ActivationDemotesOthers ==
    [][ReturnedFrom("activate_config")
          => LET v == result'.ret
                 t == configs[v].config_type
                 demoted == InStatus(configs, t, "ACTIVE") \ {v}
             IN  /\ InStatus(configs', t, "ACTIVE") = {v}
                 /\ \A i \in demoted :
                       /\ configs'[i].status = "ROLLED_BACK"
                       /\ Len(RowsOf(NewRows, i)) = 1
                       /\ RowsOf(NewRows, i)[1].before_status = "ACTIVE"
                       /\ RowsOf(NewRows, i)[1].after_status = "ROLLED_BACK"
                 /\ \A i \in Ids(configs) :
                       configs[i].config_type # t => configs'[i] = configs[i]]_vars

\* activate_config has returned after demoting a version: the row before its
\* own ACTIVATE row is the demotion's
ActivationDemoted ==
    /\ result.op = "activate_config"
    /\ result.outcome = "ok"
    /\ Len(audit) >= 2
    /\ audit[Len(audit) - 1].action = "ROLLBACK"
    /\ configs[audit[Len(audit) - 1].config_version_id].status = "ROLLED_BACK"

\* the versions of config_type t that became ACTIVE, in the order in which
\* they did (the ACTIVATE rows of the audit log)
Activations(t) ==
    LET rows == SelectSeq(audit,
                    LAMBDA r : /\ r.action = "ACTIVATE"
                               /\ configs[r.config_version_id].config_type = t)
    IN  [k \in 1..Len(rows) |-> rows[k].config_version_id]

\* C5: after rollback_config(T) returns, the ACTIVE version of T is the one
\* that was ACTIVE immediately before the version that was ACTIVE when it was
\* called.  (The last activation of T is the rollback's, the one before it
\* that of the version ACTIVE at the call.)
RollbackRestoresPreviousActive ==
    (result.op = "rollback_config" /\ result.outcome = "ok")
       => LET h == Activations(result.arg) IN
          /\ Len(h) >= 3
          /\ get_active_config(configs, result.arg) = h[Len(h) - 2]

RollbackWithoutPreviousRaises ==
    [][\A t \in ConfigType :
          (result'.op = "rollback_config" /\ result'.arg = t
             /\ InStatus(configs, t, "ROLLED_BACK") = {})
          => /\ result'.outcome = "NoPreviousActiveVersionError"
             /\ configs' = configs
             /\ audit' = audit]_vars

\* rollback_config has raised while its config_type has an ACTIVE version
RollbackRaisedWithActive ==
    /\ result.op = "rollback_config"
    /\ result.outcome = "NoPreviousActiveVersionError"
    /\ InStatus(configs, result.arg, "ACTIVE") # {}

\* the last audit row of version i
LastRowOf(log, i) == RowsOf(log, i)[Len(RowsOf(log, i))]

\* C8 as stated: at any time the latest audit row of a version records the
\* version's current status.
LatestAuditRowRecordsStatus ==
    \A i \in Ids(configs) :
       /\ RowsOf(audit, i) # << >>
       /\ LastRowOf(audit, i).after_status = configs[i].status

\* C8, amended: no call alters or removes a row of the audit log; a call
\* appends exactly one row, with the status before and after, for each
\* version whose status it changes and none for a version whose status it
\* leaves; the latest row of a version that has left DRAFT records its
\* current status, and the only row of a draft is its CREATE row, which
\* records no status.
AuditLogAppendOnlyAndComplete ==
    [][/\ Len(audit') >= Len(audit)
       /\ SubSeq(audit', 1, Len(audit)) = audit
       /\ \A i \in Ids(configs) :
             IF configs'[i].status # configs[i].status
             THEN /\ Len(RowsOf(NewRows, i)) = 1
                  /\ RowsOf(NewRows, i)[1].before_status = configs[i].status
                  /\ RowsOf(NewRows, i)[1].after_status = configs'[i].status
             ELSE RowsOf(NewRows, i) = << >>
       /\ \A i \in Ids(configs') :
             IF configs'[i].status = "DRAFT"
             THEN RowsOf(audit', i) =
                     << AuditRow(i, "CREATE", NoStatus, NoPercent,
                                 NoStatus, NoPercent) >>
             ELSE LastRowOf(audit', i).after_status = configs'[i].status]_vars

\* rollback_config has returned: the two rows it appended record the demotion
\* of one version and the reactivation of another
RollbackAudited ==
    /\ result.op = "rollback_config"
    /\ result.outcome = "ok"
    /\ audit[Len(audit)].config_version_id = result.ret
    /\ audit[Len(audit)].before_status = "ROLLED_BACK"
    /\ audit[Len(audit)].after_status = "ACTIVE"
    /\ audit[Len(audit) - 1].after_status = "ROLLED_BACK"
    /\ configs[audit[Len(audit) - 1].config_version_id].status = "ROLLED_BACK"

\* C9: when activate_config(v) returns, get_active_config of v's config_type
\* is v, ACTIVE at 100 percent; and the version get_active_config returns for
\* a config_type stays the same, ACTIVE at 100 percent, over every call that
\* is neither a returning activate_config of that type nor a rollback_config
\* of that type.
ActiveConfigIsActivatedVersion ==
    [][/\ ReturnedFrom("activate_config")
             => LET v == result'.ret IN
                /\ get_active_config(configs', configs[v].config_type) = v
                /\ configs'[v].status = "ACTIVE"
                /\ configs'[v].rollout_percent = 100
       /\ \A t \in ConfigType :
             LET a == get_active_config(configs, t) IN
             (/\ a # None
              /\ ~(/\ ReturnedFrom("activate_config")
                   /\ configs[result'.ret].config_type = t)
              /\ ~(result'.op = "rollback_config" /\ result'.arg = t))
             => /\ get_active_config(configs', t) = a
                /\ configs'[a].status = "ACTIVE"
                /\ configs'[a].rollout_percent = 100]_vars

\* a version deployed at less than 100 percent has been activated, and it is
\* still what get_active_config returns after a later call
ActivatedAfterPartialRollout ==
    /\ result.op # "activate_config"
    /\ \E v \in Ids(configs) :
          /\ get_active_config(configs, configs[v].config_type) = v
          /\ configs[v].rollout_percent = 100
          /\ \E k \in 1..Len(audit) :
                /\ audit[k].config_version_id = v
                /\ audit[k].action = "DEPLOY"
                /\ audit[k].after_percent < 100

SetMax(S) == CHOOSE x \in S : \A y \in S : y <= x

\* C10: a new draft gets the largest version number of its config_type plus
\* one (1 for the first); version numbers and config types of existing
\* versions never change; no two versions of a config_type share a number.
VersionNumbersIncrease ==
    [][/\ ReturnedFrom("create_draft")
             => LET t == result'.arg
                    existing == {configs[i].version : i \in OfType(configs, t)}
                    new == result'.ret
                IN  /\ new \notin Ids(configs)
                    /\ Ids(configs') = Ids(configs) \cup {new}
                    /\ configs'[new].config_type = t
                    /\ configs'[new].version =
                          IF existing = {} THEN 1 ELSE SetMax(existing) + 1
       /\ \A i \in Ids(configs) :
             /\ configs'[i].version = configs[i].version
             /\ configs'[i].config_type = configs[i].config_type
       /\ \A i, j \in Ids(configs') :
             (i # j /\ configs'[i].config_type = configs'[j].config_type)
                => configs'[i].version # configs'[j].version]_vars

\* a third draft of one config_type has been created after a draft of
\* another type
ThirdDraftOfType ==
    /\ result.op = "create_draft"
    /\ configs[result.ret].version = 3
    /\ \E i \in Ids(configs) :
          /\ i < result.ret
          /\ configs[i].config_type # configs[result.ret].config_type

(***************************************************************************)
(* Gray release: ConfigService.should_apply_config.                         *)
(*                                                                         *)
(* hash(str(user_id)) is Python's built-in hash of a str, which is keyed    *)
(* with a seed drawn when the interpreter process starts (no PYTHONHASHSEED *)
(* is set anywhere in the repository).  Within one process it is a          *)
(* function of the string; a restarted process, or another worker process,  *)
(* has another function.  gray.hash is the function of the process that     *)
(* answers, gray.evals the evaluations made so far.                         *)
(***************************************************************************)

UserIds == {"u1", "u2"}

\* values of hash(str(user_id)): residues 0, 49, 50 and 99 modulo 100
HashValues == {100, 149, 250, 399}

\* values of config.rollout_percent
RolloutPercents == {0, 50, 100}

StrHashes == [UserIds -> HashValues]

should_apply_config(rollout_percent, user_hash) ==
    IF rollout_percent >= 100 THEN TRUE
    ELSE IF rollout_percent <= 0 THEN FALSE
    ELSE (user_hash % 100) < rollout_percent

InitGray ==
    /\ configs = << >>
    /\ audit = << >>
    /\ grok = Unused
    /\ usage = Unused
    /\ otps = Unused
    /\ result = Unused
    /\ gray \in [hash : StrHashes, evals : {{}}]
    /\ queue = Unused
    /\ rec = Unused
    /\ txn = Unused
    /\ rules = Unused
    /\ scoring = Unused

\* an interpreter process starts: a worker is added or the service restarts
StartProcess ==
    /\ \E h \in StrHashes : gray' = [gray EXCEPT !.hash = h]
    /\ UNCHANGED <<configVars, queue, rec, txn, rules, scoring, serviceVars>>

Evaluate(rollout_percent, user_id) ==
    /\ gray' = [gray EXCEPT !.evals = @ \cup
                  {[rollout_percent |-> rollout_percent,
                    user_id |-> user_id,
                    applied |-> should_apply_config(rollout_percent,
                                                    gray.hash[user_id])]}]
    /\ UNCHANGED <<configVars, queue, rec, txn, rules, scoring, serviceVars>>

NextGray ==
    \/ StartProcess
    \/ \E p \in RolloutPercents, u \in UserIds : Evaluate(p, u)

SpecGray == InitGray /\ [][NextGray]_vars

\* C11: any two evaluations of should_apply_config with the same
\* rollout_percent and user_id return the same boolean; the result is false
\* for every user at 0 percent and true for every user at 100 percent.
ShouldApplyIsDeterministic ==
    /\ \A e1, e2 \in gray.evals :
          (e1.rollout_percent = e2.rollout_percent /\ e1.user_id = e2.user_id)
             => e1.applied = e2.applied
    /\ \A e \in gray.evals :
          /\ e.rollout_percent = 0 => ~e.applied
          /\ e.rollout_percent = 100 => e.applied

(***************************************************************************)
(* The review queue: ReviewService.                                         *)
(*                                                                         *)
(* queue.reviews is the review_queue table (the id of an item is its        *)
(* position), queue.sessions the recommendation_sessions rows the items     *)
(* refer to, queue.now the reading of utc_now() and queue.result what the   *)
(* last call returned or raised.                                            *)
(***************************************************************************)

MaxSessions == 1

MaxClock == 4

SessionIds == 1 .. MaxSessions

ReviewerIds == {"r1", "r2"}

\* a nullable column that holds no value
Null == "null"

ReviewStatus == {"PENDING", "IN_REVIEW", "APPROVED", "REJECTED"}

RiskLevel == {"LOW", "MEDIUM", "HIGH", "CRITICAL"}

HIGH_RISK_CONDITIONS ==
    {"diabetes", "heart_disease", "kidney_disease", "liver_disease", "cancer",
     "autoimmune"}

HIGH_RISK_MEDICATIONS ==
    {"warfarin", "insulin", "metformin", "lithium", "immunosuppressant"}

CRITICAL_ALLERGIES == {"severe_food_allergy", "anaphylaxis_history"}

\* An entry of a health profile is a free text; what the service asks of it
\* is which keywords occur in its lower-cased form, so an entry is the set of
\* those keywords.
RECURSIVE SumSeq(_)
SumSeq(seq) == IF seq = << >> THEN 0 ELSE Head(seq) + SumSeq(Tail(seq))

Matches(entry, keywords) == entry \cap keywords # {}

_calculate_risk_level(health_profile, recommendations) ==
    LET allergy(a) == IF Matches(a, CRITICAL_ALLERGIES) THEN 50 ELSE 0
        condition(c) == IF Matches(c, HIGH_RISK_CONDITIONS) THEN 20 ELSE 0
        medication(m) == IF Matches(m, HIGH_RISK_MEDICATIONS) THEN 15 ELSE 0
        safety(r) == Len(r.warnings) * 5
                     + (IF r.requires_professional_consult THEN 10 ELSE 0)
        Over(seq, points(_)) == SumSeq([i \in DOMAIN seq |-> points(seq[i])])
        risk_score == Over(health_profile.allergies, allergy)
                      + Over(health_profile.chronic_conditions, condition)
                      + Over(health_profile.medications, medication)
                      + Over(recommendations, safety)
    IN  IF risk_score >= 50 THEN "CRITICAL"
        ELSE IF risk_score >= 30 THEN "HIGH"
        ELSE IF risk_score >= 10 THEN "MEDIUM"
        ELSE "LOW"

should_require_review(health_profile, recommendations) ==
    _calculate_risk_level(health_profile, recommendations)
        \in {"HIGH", "CRITICAL"}

\* the health profiles and recommendation lists the calls are made with
HealthProfiles ==
    { [allergies |-> << >>, chronic_conditions |-> << >>,
       medications |-> << >>],
      [allergies |-> <<{}>>, chronic_conditions |-> << >>,
       medications |-> <<{"metformin"}>>],
      [allergies |-> << >>, chronic_conditions |-> <<{"diabetes"}, {}>>,
       medications |-> <<{"insulin"}>>],
      [allergies |-> <<{"anaphylaxis_history"}>>,
       chronic_conditions |-> << >>, medications |-> << >>] }

RecommendationLists ==
    { <<[warnings |-> << >>, requires_professional_consult |-> FALSE]>>,
      <<[warnings |-> <<"w1", "w2">>, requires_professional_consult |-> TRUE],
        [warnings |-> << >>, requires_professional_consult |-> FALSE]>> }

ReviewResult(op, review_id, outcome, current_status, note) ==
    [op |-> op, review_id |-> review_id, outcome |-> outcome,
     current_status |-> current_status, resolution_note |-> note]

ReviewReturned(op, review_id, note) ==
    ReviewResult(op, review_id, "ok", Null, note)

ReviewNotFoundError(op, review_id, note) ==
    ReviewResult(op, review_id, "ReviewNotFoundError", Null, note)

InvalidReviewActionError(op, review_id, current_status, note) ==
    ReviewResult(op, review_id, "InvalidReviewActionError", current_status,
                 note)

ReviewRaise(q, err) == [q EXCEPT !.result = err]

get_review_by_id(q, review_id) ==
    IF review_id \in DOMAIN q.reviews THEN review_id ELSE None

get_review_by_session_id(q, session_id) ==
    LET found == {i \in DOMAIN q.reviews : q.reviews[i].session_id = session_id}
    IN  IF found = {} THEN None ELSE CHOOSE i \in found : TRUE

\* session_id is unique in review_queue: a second item for a session fails
\* at flush
create_review_item(q, session_id, health_profile, recommendations) ==
    IF get_review_by_session_id(q, session_id) # None
    THEN ReviewRaise(q, ReviewResult("create_review_item", session_id,
                                     "IntegrityError", Null, Null))
    ELSE [q EXCEPT
            !.reviews = Append(@,
                [session_id |-> session_id, status |-> "PENDING",
                 risk_level |-> _calculate_risk_level(health_profile,
                                                      recommendations),
                 assigned_to |-> Null, created_at |-> q.now,
                 resolved_at |-> None, resolution_note |-> Null]),
            !.now = @ + 1,
            !.result = ReviewReturned("create_review_item",
                                      Len(q.reviews) + 1, Null)]

OpenStatuses_with_approved == {"PENDING", "IN_REVIEW", "APPROVED"}

\* the statuses approve_review, reject_review and assign_reviewer accept
OpenStatuses == {"PENDING", "IN_REVIEW"}

\* approve_review and reject_review from the status check on
Resolve(q, op, review_id, reviewer_id, resolution_note, status, session_status) ==
    LET review == q.reviews[review_id]
    IN  IF review.status \notin OpenStatuses
        THEN ReviewRaise(q, InvalidReviewActionError(op, review_id,
                                review.status, resolution_note))
        ELSE [q EXCEPT
                !.reviews[review_id] =
                    [review EXCEPT !.status = status,
                                   !.resolved_at = q.now,
                                   !.resolution_note = resolution_note,
                                   !.assigned_to = reviewer_id],
                !.sessions[review.session_id] =
                    [status |-> session_status, reviewed_at |-> q.now + 1,
                     reviewed_by |-> reviewer_id],
                !.now = @ + 2,
                !.result = ReviewReturned(op, review_id, resolution_note)]

approve_review(q, review_id, reviewer_id, resolution_note) ==
    IF get_review_by_id(q, review_id) = None
    THEN ReviewRaise(q, ReviewNotFoundError("approve_review", review_id,
                                            resolution_note))
    ELSE Resolve(q, "approve_review", review_id, reviewer_id,
                 resolution_note, "APPROVED", "PUBLISHED")

reject_review(q, review_id, reviewer_id, resolution_note) ==
    IF resolution_note \in {Null, ""}
    THEN ReviewRaise(q, ReviewResult("reject_review", review_id,
                                     "ValueError", Null, resolution_note))
    ELSE IF get_review_by_id(q, review_id) = None
    THEN ReviewRaise(q, ReviewNotFoundError("reject_review", review_id,
                                            resolution_note))
    ELSE Resolve(q, "reject_review", review_id, reviewer_id,
                 resolution_note, "REJECTED", "REJECTED")

assign_reviewer(q, review_id, reviewer_id) ==
    IF get_review_by_id(q, review_id) = None
    THEN ReviewRaise(q, ReviewNotFoundError("assign_reviewer", review_id,
                                            Null))
    ELSE IF q.reviews[review_id].status \notin OpenStatuses
    THEN ReviewRaise(q, InvalidReviewActionError("assign_reviewer",
                            review_id, q.reviews[review_id].status, Null))
    ELSE [q EXCEPT !.reviews[review_id].assigned_to = reviewer_id,
                   !.reviews[review_id].status = "IN_REVIEW",
                   !.result = ReviewReturned("assign_reviewer", review_id,
                                             Null)]

\* a mutation of unassign_reviewer: the status goes back to PENDING and the
\* reviewer stays on the item
unassign_reviewer_keeping_reviewer(q, review_id) ==
    IF get_review_by_id(q, review_id) = None
    THEN ReviewRaise(q, ReviewNotFoundError("unassign_reviewer", review_id,
                                            Null))
    ELSE IF q.reviews[review_id].status # "IN_REVIEW"
    THEN ReviewRaise(q, InvalidReviewActionError("unassign_reviewer",
                            review_id, q.reviews[review_id].status, Null))
    ELSE [q EXCEPT !.reviews[review_id].status = "PENDING",
                   !.result = ReviewReturned("unassign_reviewer", review_id,
                                             Null)]

unassign_reviewer(q, review_id) ==
    IF get_review_by_id(q, review_id) = None
    THEN ReviewRaise(q, ReviewNotFoundError("unassign_reviewer", review_id,
                                            Null))
    ELSE IF q.reviews[review_id].status # "IN_REVIEW"
    THEN ReviewRaise(q, InvalidReviewActionError("unassign_reviewer",
                            review_id, q.reviews[review_id].status, Null))
    ELSE [q EXCEPT !.reviews[review_id].assigned_to = Null,
                   !.reviews[review_id].status = "PENDING",
                   !.result = ReviewReturned("unassign_reviewer", review_id,
                                             Null)]

\* review ids the calls are made with: those of the items and one unknown
ReviewIds == 1 .. MaxSessions + 1

ApproveNotes == {Null, "fine"}

RejectNotes == {"", "more data needed"}

EmptyQueue ==
    [reviews |-> << >>,
     sessions |-> [s \in SessionIds |->
                      [status |-> "PENDING", reviewed_at |-> None,
                       reviewed_by |-> Null]],
     now |-> 1,
     result |-> ReviewResult(Null, None, Null, Null, Null)]

InitReview ==
    /\ configs = << >>
    /\ audit = << >>
    /\ grok = Unused
    /\ usage = Unused
    /\ otps = Unused
    /\ result = Unused
    /\ gray = Unused
    /\ queue = EmptyQueue
    /\ rec = Unused
    /\ txn = Unused
    /\ rules = Unused
    /\ scoring = Unused

ReviewCall(after) ==
    /\ after.now <= MaxClock
    /\ queue' = after
    /\ UNCHANGED <<configVars, gray, rec, txn, rules, scoring, serviceVars>>

NextReview ==
    \/ \E s \in SessionIds, hp \in HealthProfiles, rs \in RecommendationLists :
          ReviewCall(create_review_item(queue, s, hp, rs))
    \/ \E id \in ReviewIds, r \in ReviewerIds, note \in ApproveNotes :
          ReviewCall(approve_review(queue, id, r, note))
    \/ \E id \in ReviewIds, r \in ReviewerIds, note \in RejectNotes :
          ReviewCall(reject_review(queue, id, r, note))
    \/ \E id \in ReviewIds, r \in ReviewerIds :
          ReviewCall(assign_reviewer(queue, id, r))
    \/ \E id \in ReviewIds : ReviewCall(unassign_reviewer(queue, id))

SpecReview == InitReview /\ [][NextReview]_vars

ResolvedStatuses == {"APPROVED", "REJECTED"}

\* the call of this step was op on an item that existed before it
CalledOn(ops) ==
    /\ queue'.result.op \in ops
    /\ queue'.result.review_id \in DOMAIN queue.reviews

StatusBefore == queue.reviews[queue'.result.review_id].status

QueueUnchanged ==
    /\ queue'.reviews = queue.reviews
    /\ queue'.sessions = queue.sessions

\* approve_review and reject_review return only on a PENDING or IN_REVIEW
\* item, and no call changes an APPROVED or REJECTED item or its session
ResolvedIsTerminal ==
    /\ (CalledOn({"approve_review", "reject_review"})
           /\ queue'.result.outcome = "ok")
          => StatusBefore \in {"PENDING", "IN_REVIEW"}
    /\ \A id \in DOMAIN queue.reviews :
          queue.reviews[id].status \in ResolvedStatuses
             => /\ queue'.reviews[id] = queue.reviews[id]
                /\ queue'.sessions[queue.reviews[id].session_id]
                     = queue.sessions[queue.reviews[id].session_id]

\* C12 as stated: approve_review and reject_review succeed only on a PENDING
\* or IN_REVIEW item; on an APPROVED or REJECTED item they raise
\* InvalidReviewActionError and leave the item and its session unchanged, so
\* both statuses are terminal under approve, reject, assign and unassign.
ResolvingResolvedRaisesInvalidAction ==
    [][/\ ResolvedIsTerminal
       /\ (CalledOn({"approve_review", "reject_review"})
              /\ StatusBefore \in ResolvedStatuses)
             => /\ queue'.result.outcome = "InvalidReviewActionError"
                /\ QueueUnchanged]_vars

\* C12: as above, except that reject_review called with an empty
\* resolution_note raises ValueError before it reads the item, whatever the
\* status of the item, and changes nothing.
ResolvingResolvedRaises ==
    [][/\ ResolvedIsTerminal
       /\ (CalledOn({"approve_review", "reject_review"})
              /\ StatusBefore \in ResolvedStatuses)
             => /\ queue'.result.outcome =
                      IF /\ queue'.result.op = "reject_review"
                         /\ queue'.result.resolution_note = ""
                      THEN "ValueError"
                      ELSE "InvalidReviewActionError"
                /\ queue'.result.outcome = "InvalidReviewActionError"
                      => queue'.result.current_status = StatusBefore
                /\ QueueUnchanged]_vars

\* reject_review has raised InvalidReviewActionError on an APPROVED item
RejectOfApprovedRaised ==
    /\ queue.result.op = "reject_review"
    /\ queue.result.outcome = "InvalidReviewActionError"
    /\ queue.result.current_status = "APPROVED"
    /\ queue.reviews[queue.result.review_id].status = "APPROVED"

\* C13: no item stored by create_review_item has risk_level LOW or MEDIUM.
ReviewItemsAreHighRisk ==
    \A id \in DOMAIN queue.reviews :
        queue.reviews[id].risk_level \in {"HIGH", "CRITICAL"}

(***************************************************************************)
(* The rule engine: RuleEngine.                                             *)
(*                                                                         *)
(* Texts are ASCII here: a Chinese description is named by the rule it      *)
(* belongs to, and the Chinese aliases of a drug, which no ASCII medication *)
(* text contains or is contained in unless it is empty, are left out.       *)
(* weight_modifier is in tenths, so an adjusted score is in tenths of a     *)
(* point.  An Optional value is a sequence of at most one element.          *)
(***************************************************************************)

\* the number of entries of each list of a health profile
MaxListLen == 2

Elems(seq) == {seq[i] : i \in DOMAIN seq}

\* t in s, for two str
IsIn(t, s) ==
    \E i \in 1 .. (Len(s) - Len(t) + 1) : SubSeq(s, i, i + Len(t) - 1) = t

\* str.lower() on the texts that occur here
lower(s) ==
    CASE s = "Shellfish" -> "shellfish"
      [] s = "Kidney_Disease" -> "kidney_disease"
      [] s = "Coumadin 5mg" -> "coumadin 5mg"
      [] s = " Statin" -> " statin"
      [] s = "Glucosamine" -> "glucosamine"
      [] OTHER -> s

RECURSIVE strip(_)
strip(s) ==
    IF s = "" THEN s
    ELSE IF SubSeq(s, 1, 1) = " " THEN strip(SubSeq(s, 2, Len(s)))
    ELSE IF SubSeq(s, Len(s), Len(s)) = " "
    THEN strip(SubSeq(s, 1, Len(s) - 1))
    ELSE s

RuleAction == {"allow", "warn", "block"}

\* Severity, in the order of Severity.__lt__
Severity == <<"low", "medium", "high", "critical">>

SeverityIndex(severity) == CHOOSE i \in DOMAIN Severity : Severity[i] = severity

ALLERGY_RULES ==
    [shellfish |->
        [blocked_nutrients |-> <<"glucosamine", "chitosan", "omega_3_krill">>,
         warning_nutrients |-> <<"omega_3">>,
         description_zh |-> "allergy:shellfish"],
     nuts |->
        [blocked_nutrients |-> <<"almond_protein", "walnut_oil">>,
         warning_nutrients |-> <<"vitamin_e">>,
         description_zh |-> "allergy:nuts"],
     dairy |->
        [blocked_nutrients |-> <<"whey_protein", "casein", "lactoferrin">>,
         warning_nutrients |-> <<"calcium", "vitamin_d">>,
         description_zh |-> "allergy:dairy"],
     gluten |->
        [blocked_nutrients |-> <<"wheat_germ_oil", "barley_grass">>,
         warning_nutrients |-> <<"b_vitamins">>,
         description_zh |-> "allergy:gluten"],
     soy |->
        [blocked_nutrients |->
            <<"soy_protein", "soy_lecithin", "soy_isoflavones">>,
         warning_nutrients |-> <<"vitamin_e">>,
         description_zh |-> "allergy:soy"],
     fish |->
        [blocked_nutrients |-> <<"fish_oil", "omega_3_fish", "cod_liver_oil">>,
         warning_nutrients |-> <<"omega_3">>,
         description_zh |-> "allergy:fish"]]

CHRONIC_CONDITION_RULES ==
    [diabetes |->
        [blocked_nutrients |-> << >>,
         warning_nutrients |-> <<"chromium", "alpha_lipoic_acid", "cinnamon">>,
         description_zh |-> "condition:diabetes"],
     hypertension |->
        [blocked_nutrients |-> <<"licorice">>,
         warning_nutrients |-> <<"sodium", "caffeine", "ginseng">>,
         description_zh |-> "condition:hypertension"],
     heart_disease |->
        [blocked_nutrients |-> <<"ephedra">>,
         warning_nutrients |->
            <<"vitamin_e_high_dose", "calcium_high_dose", "iron">>,
         description_zh |-> "condition:heart_disease"],
     thyroid |->
        [blocked_nutrients |-> << >>,
         warning_nutrients |-> <<"iodine", "kelp", "selenium_high_dose">>,
         description_zh |-> "condition:thyroid"],
     kidney_disease |->
        [blocked_nutrients |-> <<"potassium_high_dose", "phosphorus">>,
         warning_nutrients |->
            <<"vitamin_c_high_dose", "calcium", "magnesium">>,
         description_zh |-> "condition:kidney_disease"]]

DrugInteraction(drug, nutrient, severity) ==
    [drug |-> drug, nutrient |-> nutrient, severity |-> severity]

DRUG_INTERACTIONS ==
    << DrugInteraction("warfarin", "vitamin_k", "high"),
       DrugInteraction("warfarin", "omega_3", "medium"),
       DrugInteraction("warfarin", "vitamin_e", "medium"),
       DrugInteraction("aspirin", "omega_3", "medium"),
       DrugInteraction("aspirin", "ginkgo", "high"),
       DrugInteraction("ace_inhibitor", "potassium", "high"),
       DrugInteraction("calcium_channel_blocker", "grapefruit", "high"),
       DrugInteraction("metformin", "vitamin_b12", "low"),
       DrugInteraction("insulin", "chromium", "medium"),
       DrugInteraction("levothyroxine", "calcium", "medium"),
       DrugInteraction("levothyroxine", "iron", "medium"),
       DrugInteraction("tetracycline", "calcium", "high"),
       DrugInteraction("fluoroquinolone", "magnesium", "high"),
       DrugInteraction("statin", "coq10", "low"),
       DrugInteraction("statin", "red_yeast_rice", "high") >>

DRUG_ALIASES ==
    [warfarin |-> <<"warfarin", "coumadin">>,
     aspirin |-> <<"aspirin">>,
     ace_inhibitor |-> <<"enalapril", "captopril", "lisinopril">>,
     calcium_channel_blocker |-> <<"amlodipine", "nifedipine">>,
     metformin |-> <<"metformin">>,
     insulin |-> <<"insulin">>,
     levothyroxine |-> <<"levothyroxine", "synthroid">>,
     tetracycline |-> <<"tetracycline", "doxycycline">>,
     fluoroquinolone |-> <<"levofloxacin", "moxifloxacin">>,
     statin |-> <<"atorvastatin", "rosuvastatin", "simvastatin">>]

SafetyInfo(warnings, requires_professional_consult, interactions) ==
    [warnings |-> warnings,
     requires_professional_consult |-> requires_professional_consult,
     interactions |-> interactions]

RuleResult(nutrient, action, reason_zh, weight_modifier, safety_info) ==
    [nutrient |-> nutrient, action |-> action, reason_zh |-> reason_zh,
     weight_modifier |-> weight_modifier, safety_info |-> safety_info]

_normalize_drug_name(medication) ==
    LET medication_lower == strip(lower(medication))
    IN  (IF medication_lower \in DOMAIN DRUG_ALIASES
         THEN {medication_lower} ELSE {})
        \cup {drug_key \in DOMAIN DRUG_ALIASES :
                \E alias \in Elems(DRUG_ALIASES[drug_key]) :
                    \/ IsIn(lower(alias), medication_lower)
                    \/ IsIn(medication_lower, lower(alias))}

\* the rule of an allergy or condition applied to a nutrient: block, warn or
\* nothing
RuleHit(rule, nutrient, family, entry, warn_weight, warn_consult) ==
    IF lower(nutrient) \in {lower(n) : n \in Elems(rule.blocked_nutrients)}
    THEN <<RuleResult(nutrient, "block", <<family, "block", entry>>, 0,
                      SafetyInfo(<<rule.description_zh>>, TRUE, << >>))>>
    ELSE IF lower(nutrient)
              \in {lower(n) : n \in Elems(rule.warning_nutrients)}
    THEN <<RuleResult(nutrient, "warn", <<family, "warn", entry>>,
                      warn_weight,
                      SafetyInfo(<<rule.description_zh>>, warn_consult,
                                 << >>))>>
    ELSE << >>

RECURSIVE _check_allergy_rules(_, _)
_check_allergy_rules(nutrient, allergies) ==
    IF allergies = << >> THEN << >>
    ELSE LET allergy_lower == lower(Head(allergies))
             hit == IF allergy_lower \in DOMAIN ALLERGY_RULES
                    THEN RuleHit(ALLERGY_RULES[allergy_lower], nutrient,
                                 "allergy", Head(allergies), 5, FALSE)
                    ELSE << >>
         IN  IF hit # << >> THEN hit
             ELSE _check_allergy_rules(nutrient, Tail(allergies))

RECURSIVE _check_chronic_condition_rules(_, _)
_check_chronic_condition_rules(nutrient, conditions) ==
    IF conditions = << >> THEN << >>
    ELSE LET condition_lower == lower(Head(conditions))
             hit == IF condition_lower \in DOMAIN CHRONIC_CONDITION_RULES
                    THEN RuleHit(CHRONIC_CONDITION_RULES[condition_lower],
                                 nutrient, "condition", Head(conditions), 7,
                                 TRUE)
                    ELSE << >>
         IN  IF hit # << >> THEN hit
             ELSE _check_chronic_condition_rules(nutrient, Tail(conditions))

MaxSeverity_last(interactions, max_severity) ==
    IF interactions = << >> THEN max_severity
    ELSE interactions[Len(interactions)].severity

RECURSIVE MaxSeverity(_, _)
MaxSeverity(interactions, max_severity) ==
    IF interactions = << >> THEN max_severity
    ELSE MaxSeverity(Tail(interactions),
            IF SeverityIndex(Head(interactions).severity)
                  > SeverityIndex(max_severity)
            THEN Head(interactions).severity ELSE max_severity)

normalized_drugs(medications) ==
    UNION {_normalize_drug_name(med) : med \in Elems(medications)}

\* the loop over self.drug_interactions
matched_in(drug_interactions, nutrient, medications) ==
    LET drugs == normalized_drugs(medications)
    IN  SelectSeq(drug_interactions,
                  LAMBDA interaction :
                     /\ interaction.drug \in drugs
                     /\ lower(nutrient) = lower(interaction.nutrient))

matched_interactions(nutrient, medications) ==
    matched_in(DRUG_INTERACTIONS, nutrient, medications)

\* _check_drug_interactions from the end of the loop on
DrugInteractionResult(nutrient, matched) ==
    LET max_severity == MaxSeverity(matched, "low")
        warnings == [i \in DOMAIN matched |->
                        "interaction:" \o matched[i].drug \o ":"
                           \o matched[i].nutrient]
        Result(action, weight, consult) ==
            <<RuleResult(nutrient, action, <<"drug", max_severity>>, weight,
                         SafetyInfo(warnings, consult, matched))>>
    IN  IF matched = << >> THEN << >>
        ELSE IF max_severity = "critical" THEN Result("block", 0, TRUE)
        ELSE IF max_severity = "high" THEN Result("warn", 3, TRUE)
        ELSE IF max_severity = "medium" THEN Result("warn", 6, TRUE)
        ELSE Result("allow", 9, FALSE)

_check_drug_interactions(nutrient, medications) ==
    DrugInteractionResult(nutrient, matched_interactions(nutrient, medications))

final_action_first(all_results, action) == Head(all_results).action

RECURSIVE final_action(_, _)
final_action(all_results, action) ==
    IF all_results = << >> THEN action
    ELSE IF Head(all_results).action = "block" THEN "block"
    ELSE final_action(Tail(all_results),
            IF Head(all_results).action = "warn" THEN "warn" ELSE action)

RECURSIVE Flatten(_)
Flatten(seqs) == IF seqs = << >> THEN << >> ELSE Head(seqs) \o Flatten(Tail(seqs))

\* list(set(all_warnings)) has no defined order: the merged warnings are a set
_merge_rule_results(nutrient, base_score, allergy_result, condition_result, drug_result) ==
    LET all_results == allergy_result \o condition_result \o drug_result
    IN  IF all_results = << >>
        THEN RuleResult(nutrient, "allow", <<"none">>, 10,
                        SafetyInfo({}, FALSE, << >>))
        ELSE RuleResult(nutrient, final_action(all_results, "allow"),
                [i \in DOMAIN all_results |-> all_results[i].reason_zh],
                CHOOSE w \in {r.weight_modifier : r \in Elems(all_results)} :
                    \A r \in Elems(all_results) : w <= r.weight_modifier,
                SafetyInfo(
                    UNION {Elems(r.safety_info.warnings) :
                              r \in Elems(all_results)},
                    \E r \in Elems(all_results) :
                        r.safety_info.requires_professional_consult,
                    Flatten([i \in DOMAIN all_results |->
                                all_results[i].safety_info.interactions])))

apply_safety_rules(profile, candidates) ==
    [i \in DOMAIN candidates |->
        _merge_rule_results(candidates[i].nutrient, candidates[i].base_score,
            _check_allergy_rules(candidates[i].nutrient, profile.allergies),
            _check_chronic_condition_rules(candidates[i].nutrient,
                                           profile.chronic_conditions),
            _check_drug_interactions(candidates[i].nutrient,
                                     profile.medications))]

\* list.sort(key=..., reverse=True) on a list of <<key, item>> pairs: stable,
\* descending by key
RECURSIVE InsertDesc(_, _)
InsertDesc(sorted, x) ==
    IF sorted = << >> THEN <<x>>
    ELSE IF Head(sorted)[1] >= x[1]
    THEN <<Head(sorted)>> \o InsertDesc(Tail(sorted), x)
    ELSE <<x>> \o sorted

RECURSIVE SortDesc(_)
SortDesc(seq) ==
    IF seq = << >> THEN << >>
    ELSE InsertDesc(SortDesc(SubSeq(seq, 1, Len(seq) - 1)), seq[Len(seq)])

NotBlocked_any(rule_result) == TRUE

\* the results filter_and_rank_candidates keeps
NotBlocked(rule_result) == rule_result.action # "block"

filter_and_rank_candidates(profile, candidates) ==
    LET rule_results == apply_safety_rules(profile, candidates)
        kept == SelectSeq([i \in DOMAIN candidates |->
                              [candidate |-> candidates[i],
                               rule_result |-> rule_results[i]]],
                          LAMBDA pair : NotBlocked(pair.rule_result))
        filtered_candidates ==
            [i \in DOMAIN kept |->
                [nutrient |-> kept[i].candidate.nutrient,
                 base_score |-> kept[i].candidate.base_score
                                * kept[i].rule_result.weight_modifier]]
        sorted == SortDesc([i \in DOMAIN filtered_candidates |->
                              <<filtered_candidates[i].base_score,
                                filtered_candidates[i]>>])
    IN  [i \in DOMAIN sorted |-> sorted[i][2]]

\* the texts of the health profiles and the candidate lists of the requests
AllergyTexts == {"Shellfish", "dairy", "pollen"}

ConditionTexts == {"hypertension", "Kidney_Disease"}

MedicationTexts == {"Coumadin 5mg", " Statin", "lisinopril"}

\* the lists of at most MaxListLen different members of S
ListsOver(S) ==
    {list \in UNION {[1 .. n -> S] : n \in 0 .. MaxListLen} :
        \A i, j \in DOMAIN list : i # j => list[i] # list[j]}

RuleProfiles ==
    [allergies : ListsOver(AllergyTexts),
     chronic_conditions : ListsOver(ConditionTexts),
     medications : ListsOver(MedicationTexts)]

NutrientCandidate(nutrient, base_score) ==
    [nutrient |-> nutrient, base_score |-> base_score]

CandidateLists ==
    { << >>,
      << NutrientCandidate("omega_3_krill", 90),
         NutrientCandidate("omega_3", 80),
         NutrientCandidate("licorice", 80),
         NutrientCandidate("vitamin_c", 60),
         NutrientCandidate("calcium", 50) >>,
      << NutrientCandidate("Glucosamine", 70),
         NutrientCandidate("vitamin_k", 70),
         NutrientCandidate("phosphorus", 40),
         NutrientCandidate("coq10", 40),
         NutrientCandidate("whey_protein", 30) >> }

InitRules ==
    /\ configs = << >>
    /\ audit = << >>
    /\ grok = Unused
    /\ usage = Unused
    /\ otps = Unused
    /\ result = Unused
    /\ gray = Unused
    /\ queue = Unused
    /\ rec = Unused
    /\ txn = Unused
    /\ rules \in [profile : RuleProfiles, candidates : CandidateLists,
                  op : {Null}, output : {<< >>}]
    /\ scoring = Unused

FilterAndRank ==
    /\ rules.op = Null
    /\ rules' = [rules EXCEPT
                   !.op = "filter_and_rank_candidates",
                   !.output = filter_and_rank_candidates(rules.profile,
                                                         rules.candidates)]
    /\ UNCHANGED <<configVars, gray, queue, rec, txn, scoring, serviceVars>>

NextRules == FilterAndRank

SpecRules == InitRules /\ [][NextRules]_vars

\* one of the texts is the key of a rule that lists the nutrient under
\* blocked_nutrients
ListedAsBlocked(rule_table, texts, nutrient) ==
    \E text \in Elems(texts) :
        /\ lower(text) \in DOMAIN rule_table
        /\ lower(nutrient)
             \in {lower(n) :
                    n \in Elems(rule_table[lower(text)].blocked_nutrients)}

HasCriticalInteraction(nutrient, medications) ==
    \E interaction \in Elems(matched_interactions(nutrient, medications)) :
        interaction.severity = "critical"

MustBeBlocked(nutrient, profile) ==
    \/ ListedAsBlocked(ALLERGY_RULES, profile.allergies, nutrient)
    \/ ListedAsBlocked(CHRONIC_CONDITION_RULES, profile.chronic_conditions,
                       nutrient)
    \/ HasCriticalInteraction(nutrient, profile.medications)

\* C14: a nutrient that one of the user's allergies or chronic conditions
\* lists under blocked_nutrients, or that has a CRITICAL matched drug
\* interaction, is not in the output of filter_and_rank_candidates, in
\* whatever order the allergies, conditions and medications are given.
BlockedNutrientsAreFiltered ==
    rules.op = "filter_and_rank_candidates"
       => \A c \in Elems(rules.output) :
             ~MustBeBlocked(c.nutrient, rules.profile)

\* a candidate blocked by the second of two allergies was dropped and the
\* other candidates were kept
BlockedBySecondAllergyDropped ==
    /\ rules.op = "filter_and_rank_candidates"
    /\ Len(rules.profile.allergies) = 2
    /\ lower(rules.profile.allergies[2]) = "shellfish"
    /\ \E c \in Elems(rules.candidates) :
          /\ ListedAsBlocked(ALLERGY_RULES, rules.profile.allergies,
                             c.nutrient)
          /\ c.nutrient \notin {o.nutrient : o \in Elems(rules.output)}
    /\ rules.output # << >>

(***************************************************************************)
(* The hybrid scoring engine: QuestionnaireScorer, ReportScorer and         *)
(* HybridScoringEngine.                                                     *)
(*                                                                         *)
(* Scores are floats in the source.  Here a score is exact: [num, den]      *)
(* stands for 100 * num / den.  A questionnaire score is over the           *)
(* questionnaire's max_score, a report score over the report's, and a final *)
(* score over ten times the product of the two, so the final scores of one  *)
(* request have one denominator.  Lab values and reference ranges are in    *)
(* tenths.  A reason is the tuple of what its text is formatted from.       *)
(***************************************************************************)

GOAL_NUTRIENT_MAPPING ==
    [weight_loss |->
        [probiotics |-> 25, protein_powder |-> 30, vitamin_b_complex |-> 20,
         green_tea_extract |-> 25],
     muscle_gain |->
        [protein_powder |-> 35, vitamin_b_complex |-> 20, magnesium |-> 20,
         calcium |-> 15, zinc |-> 10],
     energy |->
        [vitamin_b_complex |-> 30, iron |-> 25, coq10 |-> 20,
         vitamin_d |-> 15, magnesium |-> 10],
     immunity |->
        [vitamin_c |-> 25, vitamin_d |-> 25, zinc |-> 20, probiotics |-> 20,
         omega_3 |-> 10],
     skin_health |->
        [collagen |-> 30, vitamin_c |-> 25, vitamin_e |-> 20, zinc |-> 15,
         omega_3 |-> 10],
     bone_health |->
        [calcium |-> 30, vitamin_d |-> 30, magnesium |-> 20,
         vitamin_k |-> 20],
     heart_health |->
        [omega_3 |-> 35, coq10 |-> 25, magnesium |-> 20, vitamin_d |-> 20],
     brain_health |->
        [omega_3 |-> 30, vitamin_b_complex |-> 25, vitamin_d |-> 20,
         magnesium |-> 15, ginkgo |-> 10],
     sleep |->
        [magnesium |-> 35, melatonin |-> 30, vitamin_d |-> 20,
         calcium |-> 15]]

DIETARY_PREFERENCE_MODIFIERS ==
    [vegetarian |->
        [iron |-> 15, vitamin_b12 |-> 15, zinc |-> 10, omega_3 |-> 10],
     vegan |->
        [vitamin_b12 |-> 20, iron |-> 15, calcium |-> 15, vitamin_d |-> 15,
         zinc |-> 10, omega_3 |-> 10],
     keto |->
        [magnesium |-> 15, sodium |-> 10, potassium |-> 10,
         vitamin_b_complex |-> 10],
     paleo |-> [vitamin_d |-> 10, omega_3 |-> 10, magnesium |-> 10]]

METRIC_NUTRIENT_MAPPING ==
    [hemoglobin |->
        [low |-> [iron |-> 35, vitamin_b12 |-> 25, folic_acid |-> 20,
                  vitamin_c |-> 10],
         high |-> << >>],
     ferritin |-> [low |-> [iron |-> 40, vitamin_c |-> 15], high |-> << >>],
     vitamin_d |-> [low |-> [vitamin_d |-> 50], high |-> << >>],
     vitamin_b12 |->
        [low |-> [vitamin_b12 |-> 50, folic_acid |-> 15], high |-> << >>],
     folic_acid |->
        [low |-> [folic_acid |-> 50, vitamin_b12 |-> 15], high |-> << >>],
     fasting_glucose |->
        [low |-> [chromium |-> 20, vitamin_b_complex |-> 15],
         high |-> [chromium |-> 25, magnesium |-> 20, vitamin_d |-> 15,
                   omega_3 |-> 15]],
     hba1c |->
        [low |-> << >>,
         high |-> [chromium |-> 25, magnesium |-> 20, vitamin_d |-> 15,
                   omega_3 |-> 15]],
     total_cholesterol |->
        [low |-> << >>,
         high |-> [omega_3 |-> 30, coq10 |-> 20, niacin |-> 15,
                   fiber |-> 15]],
     ldl |->
        [low |-> << >>,
         high |-> [omega_3 |-> 35, coq10 |-> 20, niacin |-> 15]],
     hdl |->
        [low |-> [omega_3 |-> 30, niacin |-> 20, vitamin_d |-> 15],
         high |-> << >>],
     triglycerides |->
        [low |-> << >>,
         high |-> [omega_3 |-> 40, niacin |-> 20, fiber |-> 15]],
     alt |->
        [low |-> << >>,
         high |-> [milk_thistle |-> 30, vitamin_e |-> 20, omega_3 |-> 15]],
     ast |->
        [low |-> << >>,
         high |-> [milk_thistle |-> 30, vitamin_e |-> 20, omega_3 |-> 15]],
     creatinine |->
        [low |-> << >>, high |-> [omega_3 |-> 20, coq10 |-> 15]],
     uric_acid |->
        [low |-> << >>,
         high |-> [vitamin_c |-> 25, cherry_extract |-> 20,
                   quercetin |-> 15]],
     tsh |->
        [low |-> [selenium |-> 20, zinc |-> 15],
         high |-> [selenium |-> 25, zinc |-> 20, vitamin_d |-> 15,
                   iodine |-> 15]]]

\* in tenths
REFERENCE_RANGES ==
    [hemoglobin |-> [low |-> 120, high |-> 170],
     ferritin |-> [low |-> 300, high |-> 3000],
     vitamin_d |-> [low |-> 300, high |-> 1000],
     vitamin_b12 |-> [low |-> 2000, high |-> 9000],
     folic_acid |-> [low |-> 30, high |-> 170],
     fasting_glucose |-> [low |-> 700, high |-> 1000],
     hba1c |-> [low |-> 40, high |-> 57],
     total_cholesterol |-> [low |-> 1250, high |-> 2000],
     ldl |-> [low |-> 0, high |-> 1000],
     hdl |-> [low |-> 400, high |-> 2000],
     triglycerides |-> [low |-> 0, high |-> 1500],
     alt |-> [low |-> 0, high |-> 400],
     ast |-> [low |-> 0, high |-> 400],
     creatinine |-> [low |-> 6, high |-> 12],
     uric_acid |-> [low |-> 35, high |-> 72],
     tsh |-> [low |-> 4, high |-> 40]]

\* a lab value that is None
NoValue == -1

\* what the entry of a weight table for a key adds to the score of a nutrient
Weight(table, key, nutrient) ==
    IF key \in DOMAIN table /\ nutrient \in DOMAIN table[key]
    THEN table[key][nutrient] ELSE 0

\* the preferences that are not skipped
Considered(dietary_preferences) ==
    SelectSeq(dietary_preferences, LAMBDA p : p # "no_preference")

\* QuestionnaireScorer.calculate_scores before normalisation: nutrient_scores
\* and nutrient_reasons
questionnaire_raw(goals, dietary_preferences) ==
    LET prefs == Considered(dietary_preferences)
        keys == UNION ({DOMAIN GOAL_NUTRIENT_MAPPING[g] :
                           g \in Elems(goals) \cap DOMAIN GOAL_NUTRIENT_MAPPING}
                       \cup {DOMAIN DIETARY_PREFERENCE_MODIFIERS[p] :
                                p \in Elems(prefs)
                                        \cap DOMAIN DIETARY_PREFERENCE_MODIFIERS})
    IN  [nutrient \in keys |->
           [score |->
               SumSeq([i \in DOMAIN goals |->
                         Weight(GOAL_NUTRIENT_MAPPING, goals[i], nutrient)])
               + SumSeq([i \in DOMAIN prefs |->
                           Weight(DIETARY_PREFERENCE_MODIFIERS, prefs[i],
                                  nutrient)]),
            reasons |->
               [i \in DOMAIN SelectSeq(goals, LAMBDA g :
                     Weight(GOAL_NUTRIENT_MAPPING, g, nutrient) > 0) |->
                  <<"goal", SelectSeq(goals, LAMBDA g :
                       Weight(GOAL_NUTRIENT_MAPPING, g, nutrient) > 0)[i]>>]
               \o [i \in DOMAIN SelectSeq(prefs, LAMBDA q :
                     Weight(DIETARY_PREFERENCE_MODIFIERS, q, nutrient) > 0) |->
                  <<"preference", SelectSeq(prefs, LAMBDA q :
                       Weight(DIETARY_PREFERENCE_MODIFIERS, q, nutrient) > 0)[i]>>]]]

\* the flag a metric is scored under
EffectiveFlag(metric) ==
    LET metric_name == lower(metric.name)
        flag == lower(metric.flag)
    IN  IF flag = "normal" /\ metric_name \in DOMAIN REFERENCE_RANGES
             /\ metric.value # NoValue
        THEN IF metric.value < REFERENCE_RANGES[metric_name].low THEN "low"
             ELSE IF metric.value > REFERENCE_RANGES[metric_name].high
             THEN "high"
             ELSE flag
        ELSE flag

\* the weights a metric contributes, empty when it contributes nothing
MetricWeights(metric) ==
    LET metric_name == lower(metric.name)
    IN  IF metric_name \notin DOMAIN METRIC_NUTRIENT_MAPPING THEN << >>
        ELSE IF EffectiveFlag(metric) \in {"low", "high"}
        THEN METRIC_NUTRIENT_MAPPING[metric_name][EffectiveFlag(metric)]
        ELSE << >>

\* ReportScorer.calculate_scores before normalisation
report_raw(lab_metrics) ==
    LET keys == UNION {DOMAIN MetricWeights(m) : m \in Elems(lab_metrics)}
    IN  [nutrient \in keys |->
           [score |->
               SumSeq([i \in DOMAIN lab_metrics |->
                         IF nutrient \in DOMAIN MetricWeights(lab_metrics[i])
                         THEN MetricWeights(lab_metrics[i])[nutrient]
                         ELSE 0]),
            reasons |->
               LET hits == SelectSeq(lab_metrics, LAMBDA m :
                              nutrient \in DOMAIN MetricWeights(m))
               IN  [i \in DOMAIN hits |->
                      <<"metric", lower(hits[i].name), EffectiveFlag(hits[i]),
                        hits[i].value>>]]]

\* max(nutrient_scores.values()), 1 when there is no score to normalise
max_score(raw) ==
    IF DOMAIN raw = {} THEN 1
    ELSE SetMax({raw[nutrient].score : nutrient \in DOMAIN raw})

\* an Optional list that is neither None nor empty
Truthy(optional_list) ==
    optional_list # << >> /\ optional_list[1] # << >>

\* the iteration order of a set of str is that of their hashes, which differ
\* from process to process: the members of a set are visited in the order
\* in which an order of all nutrients names them
InOrder(S, order) == SelectSeq(order, LAMBDA nutrient : nutrient \in S)

NutrientScore(nutrient, questionnaire_score, report_score, final_score, reasons) ==
    [nutrient |-> nutrient, questionnaire_score |-> questionnaire_score,
     report_score |-> report_score, final_score |-> final_score,
     reasons |-> reasons]

FinalScore_if_scored(with_report, qnum, qden, rnum, rden) ==
    IF with_report /\ rnum > 0
    THEN [num |-> 7 * rnum * qden + 3 * qnum * rden, den |-> 10 * qden * rden]
    ELSE [num |-> 10 * qnum * rden, den |-> 10 * qden * rden]

\* final_score: r_score * 0.7 + q_score * 0.3 with a report, q_score without
FinalScore(with_report, qnum, qden, rnum, rden) ==
    IF with_report
    THEN [num |-> 7 * rnum * qden + 3 * qnum * rden, den |-> 10 * qden * rden]
    ELSE [num |-> 10 * qnum * rden, den |-> 10 * qden * rden]

calculate_hybrid_scores(goals, dietary_preferences, lab_metrics, order) ==
    LET q_raw == questionnaire_raw(goals, dietary_preferences)
        r_raw == IF Truthy(lab_metrics) THEN report_raw(lab_metrics[1])
                 ELSE << >>
        qden == max_score(q_raw)
        rden == max_score(r_raw)
        all_nutrients == InOrder(DOMAIN q_raw \cup DOMAIN r_raw, order)
        Hybrid(nutrient) ==
            LET qnum == IF nutrient \in DOMAIN q_raw
                        THEN Min(qden, q_raw[nutrient].score)
                        ELSE 0
                rnum == IF nutrient \in DOMAIN r_raw
                        THEN Min(rden, r_raw[nutrient].score)
                        ELSE 0
            IN  NutrientScore(nutrient,
                    [num |-> qnum, den |-> qden],
                    [num |-> rnum, den |-> rden],
                    FinalScore(Truthy(lab_metrics), qnum, qden, rnum, rden),
                    (IF nutrient \in DOMAIN q_raw
                     THEN q_raw[nutrient].reasons ELSE << >>)
                    \o (IF nutrient \in DOMAIN r_raw
                        THEN r_raw[nutrient].reasons ELSE << >>))
        sorted_scores ==
            SortDesc([i \in DOMAIN all_nutrients |->
                        <<Hybrid(all_nutrients[i]).final_score.num,
                          Hybrid(all_nutrients[i])>>])
    IN  [i \in DOMAIN sorted_scores |-> sorted_scores[i][2]]

TopN_all(all_scores, n) == all_scores

\* all_scores[:n] for n >= 0
TopN(all_scores, n) == SubSeq(all_scores, 1, Min(n, Len(all_scores)))

get_top_n(goals, dietary_preferences, lab_metrics, n, order) ==
    TopN(calculate_hybrid_scores(goals, dietary_preferences, lab_metrics,
                                 order), n)

\* every nutrient the weight tables name, in the order the source names them
NutrientNames ==
    <<"probiotics", "protein_powder", "vitamin_b_complex",
      "green_tea_extract", "magnesium", "calcium", "zinc", "iron", "coq10",
      "vitamin_d", "vitamin_c", "omega_3", "collagen", "vitamin_e",
      "vitamin_k", "ginkgo", "melatonin", "vitamin_b12", "sodium",
      "potassium", "folic_acid", "chromium", "niacin", "fiber",
      "milk_thistle", "cherry_extract", "quercetin", "selenium", "iodine">>

Reverse(seq) == [i \in DOMAIN seq |-> seq[Len(seq) + 1 - i]]

IterationOrders == {NutrientNames, Reverse(NutrientNames)}

\* the inputs of the requests
GoalTexts == {"weight_loss", "immunity", "bone_health", "detox"}

PreferenceTexts == {"vegan", "no_preference", "keto"}

LabMetric(name, value, flag) == [name |-> name, value |-> value, flag |-> flag]

\* lab_metrics: None, an empty list, a list without an abnormal metric, and
\* lists with metrics that are abnormal by flag or by reference range
LabMetricLists ==
    { << >>,
      << << >> >>,
      << << LabMetric("ldl", 900, "normal"),
            LabMetric("weight", 700, "normal") >> >>,
      << << LabMetric("ldl", 1300, "high"),
            LabMetric("vitamin_d", 200, "normal"),
            LabMetric("tsh", NoValue, "normal") >> >> }

TopNs == {0, 3, 10}

InitScoring ==
    /\ configs = << >>
    /\ audit = << >>
    /\ grok = Unused
    /\ usage = Unused
    /\ otps = Unused
    /\ result = Unused
    /\ gray = Unused
    /\ queue = Unused
    /\ rec = Unused
    /\ txn = Unused
    /\ rules = Unused
    /\ scoring \in [goals : ListsOver(GoalTexts),
                    dietary_preferences : ListsOver(PreferenceTexts),
                    lab_metrics : LabMetricLists, n : TopNs,
                    order : IterationOrders, op : {Null}, output : {<< >>}]

GetTopN ==
    /\ scoring.op = Null
    /\ scoring' = [scoring EXCEPT
                     !.op = "get_top_n",
                     !.output = get_top_n(scoring.goals,
                                          scoring.dietary_preferences,
                                          scoring.lab_metrics, scoring.n,
                                          scoring.order)]
    /\ UNCHANGED <<configVars, gray, queue, rec, txn, rules, serviceVars>>

NextScoring == GetTopN

SpecScoring == InitScoring /\ [][NextScoring]_vars

\* a >= b for two scores
ScoreGeq(a, b) ==
    IF a.den = b.den THEN a.num >= b.num
    ELSE a.num * b.den >= b.num * a.den

NUTRIENT_DATABASE ==
    << [rec_key |-> "vitamin_d", benefits |-> 3,
        goals |-> {"immunity", "bone_health", "energy"}],
       [rec_key |-> "omega_3", benefits |-> 3,
        goals |-> {"heart_health", "brain_health", "immunity"}],
       [rec_key |-> "vitamin_c", benefits |-> 3,
        goals |-> {"immunity", "skin_health", "energy"}],
       [rec_key |-> "vitamin_b_complex", benefits |-> 3,
        goals |-> {"energy", "muscle_gain", "brain_health"}],
       [rec_key |-> "magnesium", benefits |-> 3,
        goals |-> {"sleep", "muscle_gain", "heart_health"}],
       [rec_key |-> "zinc", benefits |-> 3,
        goals |-> {"immunity", "skin_health", "muscle_gain"}],
       [rec_key |-> "probiotics", benefits |-> 3,
        goals |-> {"immunity", "weight_loss", "energy"}],
       [rec_key |-> "collagen", benefits |-> 3,
        goals |-> {"skin_health", "bone_health"}],
       [rec_key |-> "coq10", benefits |-> 3,
        goals |-> {"heart_health", "energy"}],
       [rec_key |-> "iron", benefits |-> 3, goals |-> {"energy", "immunity"}],
       [rec_key |-> "calcium", benefits |-> 3,
        goals |-> {"bone_health", "muscle_gain"}],
       [rec_key |-> "vitamin_e", benefits |-> 3,
        goals |-> {"skin_health", "immunity"}],
       [rec_key |-> "turmeric", benefits |-> 3,
        goals |-> {"immunity", "bone_health"}],
       [rec_key |-> "melatonin", benefits |-> 3,
        goals |-> {"sleep", "immunity"}],
       [rec_key |-> "protein_powder", benefits |-> 3,
        goals |-> {"muscle_gain", "weight_loss"}] >>

IsBlock_or_warn(action) == action \in {"block", "warn"}

\* result.action == RuleAction.BLOCK
IsBlock(action) == action = "block"

\* SafetyCheck(safe = blocked_by is None, warnings, blocked_by); blocked_by is
\* a sequence of at most one reason, that of the first blocking result
SafetyCheck(all_results, blocking) ==
    [safe |-> blocking = << >>,
     warnings |-> Flatten([i \in DOMAIN all_results |->
                              all_results[i].safety_info.warnings]),
     blocked_by |-> IF blocking = << >> THEN << >>
                    ELSE <<Head(blocking).reason_zh>>]

\* the loop over the results of the three families
CollectChecks(all_results) ==
    SafetyCheck(all_results,
                SelectSeq(all_results, LAMBDA r : IsBlock(r.action)))

\* a mutation of check_nutrient: the chronic-condition rules are not consulted
check_nutrient_without_conditions(nutrient, profile) ==
    CollectChecks(
        _check_allergy_rules(nutrient, profile.allergies)
        \o _check_drug_interactions(nutrient, profile.medications))

check_nutrient(nutrient, profile) ==
    CollectChecks(
        _check_allergy_rules(nutrient, profile.allergies)
        \o _check_chronic_condition_rules(nutrient, profile.chronic_conditions)
        \o _check_drug_interactions(nutrient, profile.medications))

\* seq[:n]
Prefix(seq, n) == SubSeq(seq, 1, Min(n, Len(seq)))

\* the replies of the LLM to the calls of one request
LLMReplies ==
    {"three_reasons", "no_api_key", "exception", "not_json", "two_reasons",
     "three_objects"}

Filler == <<"filler">>

\* base_reasons[:3] if len(base_reasons) >= 3 else base_reasons + filler
BaseWhy(base_reasons) ==
    [reasons |-> IF Len(base_reasons) >= 3 THEN Prefix(base_reasons, 3)
                 ELSE base_reasons
                      \o [i \in 1 .. (3 - Len(base_reasons)) |-> Filler],
     are_str |-> TRUE]

_generate_personalized_why(nutrient, base_reasons, llm) ==
    IF llm = "three_reasons"
    THEN [reasons |-> [i \in 1 .. 3 |-> <<"llm", nutrient, i>>],
          are_str |-> TRUE]
    ELSE IF llm = "three_objects"
    THEN [reasons |-> [i \in 1 .. 3 |-> <<"llm", nutrient, i>>],
          are_str |-> FALSE]
    ELSE BaseWhy(base_reasons)

SafetyOf(safety_check) ==
    [warnings |-> safety_check.warnings,
     requires_professional_consult |-> Len(safety_check.warnings) > 0,
     interactions |-> << >>]

RecommendationItem(rank, rec_key, why, safety, confidence) ==
    [rank |-> rank, rec_key |-> rec_key, why |-> why, safety |-> safety,
     confidence |-> confidence]

\* the validators of RecommendationItem
ValidItem(item) ==
    /\ item.rank >= 1 /\ item.rank <= 5
    /\ item.why.are_str
    /\ Len(item.why.reasons) >= 3 /\ Len(item.why.reasons) <= 5
    /\ item.confidence >= 0 /\ item.confidence <= 100

_calculate_base_score(info, profile) ==
    Min(100, 50 + Cardinality(Elems(profile.goals) \cap info.goals) * 20)

\* the candidates are scored in tenths of a point by filter_and_rank_candidates
_get_available_nutrients(profile) ==
    filter_and_rank_candidates(profile,
        [i \in DOMAIN NUTRIENT_DATABASE |->
            NutrientCandidate(NUTRIENT_DATABASE[i].rec_key,
                _calculate_base_score(NUTRIENT_DATABASE[i], profile))])

\* the loop over nutrient_db that fills the candidates up to 5
RECURSIVE Supplement(_, _, _)
Supplement(top_candidates, existing_keys, db) ==
    IF db = << >> THEN top_candidates
    ELSE IF Head(db).rec_key \in existing_keys
    THEN Supplement(top_candidates, existing_keys, Tail(db))
    ELSE IF Len(top_candidates) + 1 >= 5
    THEN Append(top_candidates, NutrientCandidate(Head(db).rec_key, 500))
    ELSE Supplement(
            Append(top_candidates, NutrientCandidate(Head(db).rec_key, 500)),
            existing_keys, Tail(db))

\* candidates[:5], supplemented when fewer than 5, and cut to 5 again
TopCandidates(first) ==
    IF Len(first) < 5
    THEN Prefix(Supplement(first, {c.nutrient : c \in Elems(first)},
                           NUTRIENT_DATABASE), 5)
    ELSE first

\* the reasons of an item of the fallback: one for each of the first three
\* benefits, filled up to 3
PadWhy(why) ==
    [reasons |-> Prefix(IF Len(why) < 3
                        THEN why \o [i \in 1 .. (3 - Len(why)) |-> Filler]
                        ELSE why, 5),
     are_str |-> TRUE]

BenefitWhy(rec_key, nutrient_info) ==
    PadWhy([i \in 1 .. Min(3, IF nutrient_info = << >> THEN 0
                              ELSE nutrient_info[1].benefits) |->
               <<"benefit", rec_key, i>>])

FallbackItems(profile, top) ==
    [i \in DOMAIN top |->
       RecommendationItem(i, top[i].nutrient,
           BenefitWhy(top[i].nutrient,
               SelectSeq(NUTRIENT_DATABASE,
                         LAMBDA info : info.rec_key = top[i].nutrient)),
           SafetyOf(check_nutrient(top[i].nutrient, profile)),
           top[i].base_score \div 10)]

_generate_fallback_recommendations(profile, candidates) ==
    FallbackItems(profile, TopCandidates(Prefix(candidates, 5)))

\* int(min(100, max(0, final_score)))
Confidence(final_score) ==
    Min(100, Max(0, (100 * final_score.num) \div final_score.den))

\* step 2 of generate: check_nutrient for each of the top nutrients
CheckAll(profile, top_nutrients) ==
    [i \in DOMAIN top_nutrients |->
        [nutrient_score |-> top_nutrients[i],
         safety_check |->
            check_nutrient(top_nutrients[i].nutrient, profile)]]

\* if safety_check.safe or safety_check.warnings
FirstPass(checked) ==
    SelectSeq(checked, LAMBDA c :
        c.safety_check.safe \/ c.safety_check.warnings # << >>)

\* the remaining nutrients that are not blocked, up to 5 in all
Backfill(checked, first) ==
    first
    \o Prefix(SelectSeq(checked, LAMBDA c :
                 /\ c.nutrient_score.nutrient
                       \notin {t.nutrient_score.nutrient : t \in Elems(first)}
                 /\ c.safety_check.blocked_by = << >>),
              5 - Len(first))

\* step 3: the first 5, filled up when fewer
TopFive(checked, first) ==
    IF Len(first) < 5 THEN Backfill(checked, first) ELSE first

\* steps 4 and 5: one item for each of the 5
BuildItems(top_5, llm) ==
    [i \in DOMAIN top_5 |->
       RecommendationItem(i, top_5[i].nutrient_score.nutrient,
           _generate_personalized_why(top_5[i].nutrient_score.nutrient,
               Prefix(top_5[i].nutrient_score.reasons, 5), llm),
           SafetyOf(top_5[i].safety_check),
           Confidence(top_5[i].nutrient_score.final_score))]

SelectTopFive(checked) == TopFive(checked, Prefix(FirstPass(checked), 5))

\* the body of the try: the items, which may not pass validation
HybridItems(profile, llm, order) ==
    BuildItems(
        SelectTopFive(
            CheckAll(profile,
                     get_top_n(profile.goals, profile.dietary_preferences,
                               profile.lab_metrics, 10, order))),
        llm)

RequiresReview_profile_only(profile, recommendations) ==
    \/ Len(profile.medications) > 2
    \/ Len(profile.chronic_conditions) > 1

RequiresReview(profile, recommendations) ==
    \/ Len(profile.medications) > 2
    \/ Len(profile.chronic_conditions) > 1
    \/ \E r \in Elems(recommendations) :
          r.safety.requires_professional_consult

\* RecommendationResult(...), outside the try: a list that is not of 5 items
\* fails its validation and generate raises
BuildResult(profile, recommendations, path) ==
    IF Len(recommendations) # 5
    THEN [outcome |-> "ValidationError", path |-> path, items |-> << >>,
          requires_review |-> FALSE]
    ELSE [outcome |-> "returned", path |-> path, items |-> recommendations,
          requires_review |-> RequiresReview(profile, recommendations)]

\* an item that fails validation raises inside the try, and the except
\* branch replaces the recommendations by those of the rule engine
AfterTry(profile, hybrid) ==
    IF \A i \in DOMAIN hybrid : ValidItem(hybrid[i])
    THEN BuildResult(profile, hybrid, "hybrid")
    ELSE BuildResult(profile,
             _generate_fallback_recommendations(profile,
                 _get_available_nutrients(profile)),
             "fallback")

generate(profile, llm, order) ==
    AfterTry(profile, HybridItems(profile, llm, order))

\* the profiles of the requests
RecGoalLists ==
    { << >>, <<"weight_loss">>, <<"immunity", "bone_health">>,
      <<"heart_health", "sleep", "energy">> }

RecPreferenceLists == { << >>, <<"vegan">> }

RecAllergyLists == { << >>, <<"dairy">>, <<"Shellfish", "pollen">> }

RecConditionLists ==
    { << >>, <<"Kidney_Disease">>, <<"diabetes", "hypertension">> }

RecMedicationLists ==
    { << >>, <<"Coumadin 5mg">>, <<"aspirin", "ibuprofen", "paracetamol">>,
      <<"ibuprofen", "paracetamol", "loratadine">> }

RecProfiles ==
    [goals : RecGoalLists, dietary_preferences : RecPreferenceLists,
     lab_metrics : LabMetricLists, allergies : RecAllergyLists,
     chronic_conditions : RecConditionLists,
     medications : RecMedicationLists]

NoResult ==
    [outcome |-> Null, path |-> Null, items |-> << >>,
     requires_review |-> FALSE]

InitRec ==
    /\ configs = << >>
    /\ audit = << >>
    /\ grok = Unused
    /\ usage = Unused
    /\ otps = Unused
    /\ result = Unused
    /\ gray = Unused
    /\ queue = Unused
    /\ rec \in [profile : RecProfiles, llm : LLMReplies,
                order : IterationOrders, op : {Null}, output : {NoResult}]
    /\ txn = Unused
    /\ rules = Unused
    /\ scoring = Unused

Generate ==
    /\ rec.op = Null
    /\ rec' = [rec EXCEPT !.op = "generate",
                          !.output = generate(rec.profile, rec.llm, rec.order)]
    /\ UNCHANGED <<configVars, gray, queue, txn, rules, scoring, serviceVars>>

NextRec == Generate

SpecRec == InitRec /\ [][NextRec]_vars

GenerateReturned == rec.op = "generate" /\ rec.output.outcome = "returned"

Recommended(output) ==
    [outcome |-> output.outcome,
     requires_review |-> output.requires_review,
     items |-> [i \in DOMAIN output.items |->
                  [rank |-> output.items[i].rank,
                   rec_key |-> output.items[i].rec_key,
                   confidence |-> output.items[i].confidence,
                   safety |-> output.items[i].safety]]]

\* C17: an LLM failure of any kind never aborts the request and never
\* changes the nutrients, their order, confidence or safety info: compared
\* with the run where the LLM succeeds only the why texts differ.
LLMFailureChangesOnlyWhy ==
    (rec.op = "generate" /\ rec.llm # "three_reasons")
       => Recommended(rec.output)
            = Recommended(generate(rec.profile, "three_reasons", rec.order))

\* C18: requires_review is true iff the profile has more than 2 medications
\* or more than 1 chronic condition or a returned item has
\* safety.requires_professional_consult.
RequiresReviewIffComplexOrConsult ==
    GenerateReturned
       => (rec.output.requires_review
             <=> \/ Len(rec.profile.medications) > 2
                 \/ Len(rec.profile.chronic_conditions) > 1
                 \/ \E item \in Elems(rec.output.items) :
                       item.safety.requires_professional_consult)

\* a result is flagged for review only because of an item
ReviewRequiredByItemOnly ==
    /\ GenerateReturned
    /\ rec.output.requires_review
    /\ Len(rec.profile.medications) <= 2
    /\ Len(rec.profile.chronic_conditions) <= 1

(***************************************************************************)
(* ConfigService calls running concurrently.                                *)
(*                                                                         *)
(* Each request has its own AsyncSession, that is its own transaction, on   *)
(* PostgreSQL at its default isolation level (READ COMMITTED): every        *)
(* SELECT of a call reads what is committed when it runs, the rows it       *)
(* loaded stay in the session as loaded, and the UPDATEs (by primary key)   *)
(* and INSERTs of the call reach the tables when it commits.  configs and   *)
(* audit are the committed tables; txn holds, for each session, where its   *)
(* call stands and the rows it loaded.                                      *)
(***************************************************************************)

Sessions == {"s1", "s2"}

IdleSession ==
    [pc |-> "idle", op |-> Null, arg |-> Null, config |-> None,
     before_status |-> NoStatus, old |-> << >>, current_active |-> None,
     previous |-> None, outcome |-> Null]

\* the tables before the two calls: versions 2 and 3 of ruleset DEPLOYING;
\* version 2 ACTIVE with 3 and 4 DEPLOYING; version 2 ROLLED_BACK and 3 ACTIVE
\* with 4 and 5 DEPLOYING
ConcurrentDbs ==
    { DeployedDb(3),
      activate_config(DeployedDb(4), 2, << >>),
      activate_config(activate_config(DeployedDb(5), 2, << >>), 3, <<2>>) }

InitConcurrent ==
    /\ \E db \in ConcurrentDbs : configs = db.configs /\ audit = db.audit
    /\ result = Unused
    /\ gray = Unused
    /\ queue = Unused
    /\ rec = Unused
    /\ txn = [s \in Sessions |-> IdleSession]
    /\ rules = Unused
    /\ scoring = Unused
    /\ grok = Unused
    /\ usage = Unused
    /\ otps = Unused

ConcurrentUnchanged ==
    UNCHANGED <<result, gray, queue, rec, rules, scoring, serviceVars>>

\* activate_config up to the check of the transition: the SELECT of
\* get_config_by_id
BeginActivate(s, version_id) ==
    /\ txn[s].pc = "idle"
    /\ LET config == get_config_by_id(configs, version_id) IN
       txn' = [txn EXCEPT ![s] =
          IF config = None
          THEN [@ EXCEPT !.pc = "done", !.op = "activate_config",
                         !.arg = version_id,
                         !.outcome = "ConfigNotFoundError"]
          ELSE IF ~_validate_transition(configs[config].status, "ACTIVE")
          THEN [@ EXCEPT !.pc = "done", !.op = "activate_config",
                         !.arg = version_id,
                         !.outcome = "InvalidStateTransitionError"]
          ELSE [@ EXCEPT !.pc = "validated", !.op = "activate_config",
                         !.arg = version_id, !.config = config,
                         !.before_status = configs[config].status]]
    /\ UNCHANGED <<configs, audit>>
    /\ ConcurrentUnchanged

\* the SELECT of the other ACTIVE versions of the type
SelectOldActive(s) ==
    /\ txn[s].pc = "validated"
    /\ \E order \in Orders(old_active_configs(configs, txn[s].config)) :
          txn' = [txn EXCEPT ![s].pc = "selected", ![s].old = order]
    /\ UNCHANGED <<configs, audit>>
    /\ ConcurrentUnchanged

\* the writes of activate_config and its commit
CommitActivate(s) ==
    /\ txn[s].pc = "selected"
    /\ txn[s].op = "activate_config"
    /\ configs' =
          [i \in Ids(configs) |->
              IF i \in Elems(txn[s].old)
              THEN [configs[i] EXCEPT !.status = "ROLLED_BACK"]
              ELSE IF i = txn[s].config
              THEN [configs[i] EXCEPT
                      !.status = "ACTIVE",
                      !.rollout_percent =
                          ActivatedPercent(configs[i].rollout_percent)]
              ELSE configs[i]]
    /\ audit' = audit
                  \o [k \in DOMAIN txn[s].old |-> DemotionRow(txn[s].old[k])]
                  \o << AuditRow(txn[s].config, "ACTIVATE",
                                 txn[s].before_status, NoPercent,
                                 "ACTIVE", FullPercent) >>
    /\ txn' = [txn EXCEPT ![s].pc = "done", ![s].outcome = "ok"]
    /\ ConcurrentUnchanged

\* rollback_config up to its second SELECT: get_active_config
BeginRollback(s, config_type) ==
    /\ txn[s].pc = "idle"
    /\ txn' = [txn EXCEPT ![s] =
                  [@ EXCEPT !.pc = "active_read", !.op = "rollback_config",
                            !.arg = config_type,
                            !.current_active =
                                get_active_config(configs, config_type)]]
    /\ UNCHANGED <<configs, audit>>
    /\ ConcurrentUnchanged

\* the SELECT of the ROLLED_BACK version with the highest version number
SelectPrevious(s) ==
    /\ txn[s].pc = "active_read"
    /\ LET previous == previous_version(configs, txn[s].arg) IN
       txn' = [txn EXCEPT ![s] =
          IF previous = None
          THEN [@ EXCEPT !.pc = "done",
                         !.outcome = "NoPreviousActiveVersionError"]
          ELSE [@ EXCEPT !.pc = "selected", !.previous = previous]]
    /\ UNCHANGED <<configs, audit>>
    /\ ConcurrentUnchanged

\* the writes of rollback_config and its commit.  When the second SELECT
\* returned the row get_active_config had loaded (another call demoted it in
\* between), the session still holds it as loaded, status ACTIVE: setting
\* it to ROLLED_BACK and back to ACTIVE leaves the column as loaded, and no
\* UPDATE of status is sent.
CommitRollback(s) ==
    /\ txn[s].pc = "selected"
    /\ txn[s].op = "rollback_config"
    /\ configs' =
          [i \in Ids(configs) |->
              IF i = txn[s].previous
              THEN [configs[i] EXCEPT
                      !.status = IF i = txn[s].current_active THEN @
                                 ELSE "ACTIVE",
                      !.rollout_percent = FullPercent]
              ELSE IF i = txn[s].current_active
              THEN [configs[i] EXCEPT !.status = "ROLLED_BACK"]
              ELSE configs[i]]
    /\ audit' = audit
                  \o (IF txn[s].current_active # None
                      THEN << DemotionRow(txn[s].current_active) >>
                      ELSE << >>)
                  \o << AuditRow(txn[s].previous, "ACTIVATE",
                                 "ROLLED_BACK", NoPercent,
                                 "ACTIVE", FullPercent) >>
    /\ txn' = [txn EXCEPT ![s].pc = "done", ![s].outcome = "ok"]
    /\ ConcurrentUnchanged

NextConcurrent ==
    \E s \in Sessions :
       \/ \E version_id \in 1 .. (Len(configs) + 1) :
             BeginActivate(s, version_id)
       \/ SelectOldActive(s)
       \/ CommitActivate(s)
       \/ \E config_type \in SomeTypes : BeginRollback(s, config_type)
       \/ SelectPrevious(s)
       \/ CommitRollback(s)

SpecConcurrent == InitConcurrent /\ [][NextConcurrent]_vars

\* C20: under any interleaving of two concurrent activate_config calls on
\* different DEPLOYING versions of one config_type, or of activate_config
\* with rollback_config, the committed state has at most one ACTIVE version
\* of that config_type.
CommittedAtMostOneActive ==
    (\A s \in Sessions : txn[s].op \in {"activate_config", "rollback_config"})
       => \A t \in ConfigType :
             Cardinality(InStatus(configs, t, "ACTIVE")) <= 1

(***************************************************************************)
(* _merge_rule_results on its own: the three results are drawn from the     *)
(* results the three checks can build (each family's BLOCK, WARN and ALLOW   *)
(* branch), whatever the rule tables hold.                                  *)
(***************************************************************************)

MergeNutrients == {"omega_3", "vitamin_k"}

MergeBaseScores == {50, 90}

AllergyResults(nutrient) ==
    { << >>,
      <<RuleResult(nutrient, "block", <<"allergy", "block", "fish">>, 0,
                   SafetyInfo(<<"allergy:fish">>, TRUE, << >>))>>,
      <<RuleResult(nutrient, "warn", <<"allergy", "warn", "fish">>, 5,
                   SafetyInfo(<<"allergy:fish">>, FALSE, << >>))>> }

ConditionResults(nutrient) ==
    { << >>,
      <<RuleResult(nutrient, "block", <<"condition", "block", "gout">>, 0,
                   SafetyInfo(<<"condition:gout">>, TRUE, << >>))>>,
      <<RuleResult(nutrient, "warn", <<"condition", "warn", "gout">>, 7,
                   SafetyInfo(<<"condition:gout">>, TRUE, << >>))>> }

DrugResult(nutrient, action, severity, weight, consult) ==
    <<RuleResult(nutrient, action, <<"drug", severity>>, weight,
                 SafetyInfo(<<"interaction:warfarin:" \o nutrient>>, consult,
                            <<DrugInteraction("warfarin", nutrient,
                                              severity)>>))>>

DrugResults(nutrient) ==
    { << >>,
      DrugResult(nutrient, "block", "critical", 0, TRUE),
      DrugResult(nutrient, "warn", "high", 3, TRUE),
      DrugResult(nutrient, "warn", "medium", 6, TRUE),
      DrugResult(nutrient, "allow", "low", 9, FALSE) }

InitMerge ==
    /\ configs = << >>
    /\ audit = << >>
    /\ grok = Unused
    /\ usage = Unused
    /\ otps = Unused
    /\ result = Unused
    /\ gray = Unused
    /\ queue = Unused
    /\ rec = Unused
    /\ txn = Unused
    /\ \E nutrient \in MergeNutrients :
          rules \in [nutrient : {nutrient}, base_score : MergeBaseScores,
                     allergy_result : AllergyResults(nutrient),
                     condition_result : ConditionResults(nutrient),
                     drug_result : DrugResults(nutrient),
                     op : {Null}, output : {<< >>}]
    /\ scoring = Unused

MergeRuleResults ==
    /\ rules.op = Null
    /\ rules' = [rules EXCEPT
                   !.op = "_merge_rule_results",
                   !.output = _merge_rule_results(rules.nutrient,
                                  rules.base_score, rules.allergy_result,
                                  rules.condition_result, rules.drug_result)]
    /\ UNCHANGED <<configVars, gray, queue, rec, txn, scoring, serviceVars>>

NextMerge == MergeRuleResults

SpecMerge == InitMerge /\ [][NextMerge]_vars

\* BLOCK > WARN > ALLOW
Strictness(action) ==
    CASE action = "block" -> 3 [] action = "warn" -> 2 [] action = "allow" -> 1

MergedInputs ==
    rules.allergy_result \o rules.condition_result \o rules.drug_result

\* C21: the merged RuleResult has the strictest action of the three results
\* (BLOCK > WARN > ALLOW), the minimum of their weight modifiers (ALLOW and
\* 1.0 when no rule matched), and requires_professional_consult true iff at
\* least one of the three set it.
MergeTakesStrictestAndMinimum ==
    rules.op = "_merge_rule_results"
       => /\ MergedInputs = << >>
               => /\ rules.output.action = "allow"
                  /\ rules.output.weight_modifier = 10
          /\ MergedInputs # << >>
               => /\ \E r \in Elems(MergedInputs) :
                        r.action = rules.output.action
                  /\ \A r \in Elems(MergedInputs) :
                        Strictness(r.action) <= Strictness(rules.output.action)
                  /\ \E r \in Elems(MergedInputs) :
                        r.weight_modifier = rules.output.weight_modifier
                  /\ \A r \in Elems(MergedInputs) :
                        rules.output.weight_modifier <= r.weight_modifier
          /\ rules.output.safety_info.requires_professional_consult
               <=> \E r \in Elems(MergedInputs) :
                      r.safety_info.requires_professional_consult

\* an allergy warning, a blocking condition and a low interaction were merged
MergedWarnBlockAllow ==
    /\ rules.op = "_merge_rule_results"
    /\ rules.allergy_result # << >>
    /\ rules.allergy_result[1].action = "warn"
    /\ rules.condition_result # << >>
    /\ rules.condition_result[1].action = "block"
    /\ rules.drug_result # << >>
    /\ rules.drug_result[1].action = "allow"
    /\ rules.output.action = "block"
    /\ rules.output.weight_modifier = 0

(***************************************************************************)
(* _check_drug_interactions on its own.  drug_interactions is the table of  *)
(* the engine, in the order of rule_engine.py or in the opposite order.     *)
(***************************************************************************)

DrugNutrients == {"calcium", "omega_3", "vitamin_b12", "vitamin_k", "vitamin_c"}

DrugMedicationTexts ==
    {"synthroid", "doxycycline", "Coumadin 5mg", "aspirin", "metformin",
     "paracetamol"}

InteractionTables == {DRUG_INTERACTIONS, Reverse(DRUG_INTERACTIONS)}

InitDrugs ==
    /\ configs = << >>
    /\ audit = << >>
    /\ grok = Unused
    /\ usage = Unused
    /\ otps = Unused
    /\ result = Unused
    /\ gray = Unused
    /\ queue = Unused
    /\ rec = Unused
    /\ txn = Unused
    /\ rules \in [nutrient : DrugNutrients,
                  medications : ListsOver(DrugMedicationTexts),
                  drug_interactions : InteractionTables,
                  op : {Null}, output : {<< >>}]
    /\ scoring = Unused

CheckDrugInteractions ==
    /\ rules.op = Null
    /\ rules' = [rules EXCEPT
                   !.op = "_check_drug_interactions",
                   !.output = DrugInteractionResult(rules.nutrient,
                                 matched_in(rules.drug_interactions,
                                            rules.nutrient,
                                            rules.medications))]
    /\ UNCHANGED <<configVars, gray, queue, rec, txn, scoring, serviceVars>>

NextDrugs == CheckDrugInteractions

SpecDrugs == InitDrugs /\ [][NextDrugs]_vars

\* the interactions of the table whose drug a medication of the user
\* normalises to and whose nutrient is the nutrient
Matching ==
    {x \in Elems(rules.drug_interactions) :
        /\ lower(x.nutrient) = lower(rules.nutrient)
        /\ \E med \in Elems(rules.medications) :
              x.drug \in _normalize_drug_name(med)}

\* what a result decides, leaving out the order of its lists
Decision(drug_result) ==
    IF drug_result = << >> THEN << >>
    ELSE <<drug_result[1].action, drug_result[1].weight_modifier,
           drug_result[1].safety_info.requires_professional_consult,
           Elems(drug_result[1].safety_info.warnings),
           Elems(drug_result[1].safety_info.interactions)>>

\* C22: the drug-interaction result is decided by the maximum severity over
\* the interactions whose drug matches a medication of the user: CRITICAL
\* gives BLOCK with weight 0.0, HIGH gives WARN with 0.3, MEDIUM gives WARN
\* with 0.6, LOW gives ALLOW with 0.9, no match gives no result; the outcome
\* does not depend on the order of the medications or of the table.
DrugResultFollowsMaxSeverity ==
    rules.op = "_check_drug_interactions"
       => /\ (Matching = {}) <=> (rules.output = << >>)
          /\ Matching # {}
               => LET top == CHOOSE x \in Matching :
                                \A y \in Matching :
                                   SeverityIndex(y.severity)
                                      <= SeverityIndex(x.severity)
                      out == rules.output[1]
                  IN  /\ top.severity = "critical"
                           => out.action = "block" /\ out.weight_modifier = 0
                      /\ top.severity = "high"
                           => out.action = "warn" /\ out.weight_modifier = 3
                      /\ top.severity = "medium"
                           => out.action = "warn" /\ out.weight_modifier = 6
                      /\ top.severity = "low"
                           => out.action = "allow" /\ out.weight_modifier = 9
                      /\ Elems(out.safety_info.interactions) = Matching
          /\ Decision(rules.output)
               = Decision(DrugInteractionResult(rules.nutrient,
                             matched_in(Reverse(rules.drug_interactions),
                                        rules.nutrient,
                                        Reverse(rules.medications))))

\* calcium was checked for a user who takes a drug with a HIGH and a drug
\* with a MEDIUM interaction, the MEDIUM one met last in the table
HighOverLaterMedium ==
    /\ rules.op = "_check_drug_interactions"
    /\ rules.nutrient = "calcium"
    /\ rules.drug_interactions = Reverse(DRUG_INTERACTIONS)
    /\ Cardinality(Matching) = 2
    /\ rules.output[1].action = "warn"
    /\ rules.output[1].weight_modifier = 3

(***************************************************************************)
(* calculate_hybrid_scores on its own, the whole list it returns.           *)
(***************************************************************************)

InitHybrid ==
    /\ configs = << >>
    /\ audit = << >>
    /\ grok = Unused
    /\ usage = Unused
    /\ otps = Unused
    /\ result = Unused
    /\ gray = Unused
    /\ queue = Unused
    /\ rec = Unused
    /\ txn = Unused
    /\ rules = Unused
    /\ scoring \in [goals : ListsOver(GoalTexts),
                    dietary_preferences : ListsOver(PreferenceTexts),
                    lab_metrics : LabMetricLists,
                    order : IterationOrders, op : {Null}, output : {<< >>}]

CalculateHybridScores ==
    /\ scoring.op = Null
    /\ scoring' = [scoring EXCEPT
                     !.op = "calculate_hybrid_scores",
                     !.output = calculate_hybrid_scores(scoring.goals,
                                    scoring.dietary_preferences,
                                    scoring.lab_metrics, scoring.order)]
    /\ UNCHANGED <<configVars, gray, queue, rec, txn, rules, serviceVars>>

NextHybrid == CalculateHybridScores

SpecHybrid == InitHybrid /\ [][NextHybrid]_vars

\* the keys of the two scorers for the request
ScorerKeys ==
    DOMAIN questionnaire_raw(scoring.goals, scoring.dietary_preferences)
    \cup (IF Truthy(scoring.lab_metrics)
          THEN DOMAIN report_raw(scoring.lab_metrics[1]) ELSE {})

\* C23: for every nutrient of the union of the two scorers' keys the final
\* score is report_score * 0.7 + questionnaire_score * 0.3 whenever
\* lab_metrics is non-empty (even when report_score is 0), and is exactly
\* questionnaire_score when lab_metrics is empty or absent.
FinalScoreIsWeightedBlend ==
    scoring.op = "calculate_hybrid_scores"
       => /\ {s.nutrient : s \in Elems(scoring.output)} = ScorerKeys
          /\ Len(scoring.output) = Cardinality(ScorerKeys)
          /\ \A s \in Elems(scoring.output) :
                LET q == s.questionnaire_score
                    r == s.report_score
                IN  /\ s.final_score.den = 10 * q.den * r.den
                    /\ Truthy(scoring.lab_metrics)
                         => s.final_score.num
                              = 7 * r.num * q.den + 3 * q.num * r.den
                    /\ ~Truthy(scoring.lab_metrics)
                         => s.final_score.num = 10 * q.num * r.den

\* a report without an abnormal metric: the nutrients keep 0.3 of their
\* questionnaire score
BlendedWithEmptyReportScores ==
    /\ scoring.op = "calculate_hybrid_scores"
    /\ Truthy(scoring.lab_metrics)
    /\ report_raw(scoring.lab_metrics[1]) = << >>
    /\ \E s \in Elems(scoring.output) :
          /\ s.questionnaire_score.num = s.questionnaire_score.den
          /\ s.report_score.num = 0
          /\ 10 * s.final_score.num = 3 * s.final_score.den

\* C24: every ConfigVersion has rollout_percent in [0,100]: 0 at creation,
\* the requested percent clamped to [0,100] once deployed, and 100 once
\* activated or restored by a rollback, so every ACTIVE version has 100.
RolloutPercentInRange ==
    \A i \in Ids(configs) :
       /\ configs[i].rollout_percent >= 0
       /\ configs[i].rollout_percent <= 100
       /\ configs[i].status \in {"DRAFT", "APPROVED"}
            => configs[i].rollout_percent = 0
       /\ configs[i].status = "DEPLOYING"
            => \E p \in PercentInputs :
                  configs[i].rollout_percent
                     = (IF p < 0 THEN 0 ELSE IF p > 100 THEN 100 ELSE p)
       /\ configs[i].status \in {"ACTIVE", "ROLLED_BACK"}
            => configs[i].rollout_percent = 100

\* a version deployed at 130 percent waits at 100, another deployed at -5
\* percent was activated
OutOfRangeDeploysClamped ==
    /\ result.op = "activate_config"
    /\ result.outcome = "ok"
    /\ \E i \in Ids(configs) :
          configs[i].status = "DEPLOYING" /\ configs[i].rollout_percent = 100
    /\ \E k \in DOMAIN audit :
          /\ audit[k].action = "DEPLOY"
          /\ audit[k].after_percent = 0
          /\ audit[k].config_version_id = result.ret

(***************************************************************************)
(* The outbound LLM calls (api/quiz.py, api/report.py,                     *)
(* services/recommendation.py).  Every call site uses the synchronous      *)
(* OpenAI client inside an `async def`: the call runs on the event-loop    *)
(* thread of the server process and no other coroutine runs until it       *)
(* returns.  Only submit_quiz wraps its call in `_grok_semaphore`.         *)
(* grok.value is asyncio.Semaphore's counter; grok.tasks are the           *)
(* coroutines on the loop.                                                 *)
(***************************************************************************)
MaxTasks == 2

Tasks == 1..MaxTasks

\* the coroutines that call chat.completions.create
TaskKinds ==
    {"submit_quiz", "extract_with_ai", "extract_from_image",
     "_generate_personalized_why"}

\* quiz.py:735
max_retries == 2

\* quiz.py:760, a mutation: the same wait after every failure
wait_time_constant(retry_count) == 2

\* quiz.py:760
wait_time(retry_count) == retry_count * 2

\* quiz.py:36, asyncio.Semaphore(1)
_grok_semaphore == 1

NewTask(kind) ==
    [kind |-> kind, pc |-> "start", retry_count |-> 0, attempts |-> 0,
     waits |-> << >>, outcomes |-> << >>, holds |-> FALSE, last_error |-> Null]

InitGrok ==
    /\ configs = << >>
    /\ audit = << >>
    /\ result = Unused
    /\ gray = Unused
    /\ queue = Unused
    /\ rec = Unused
    /\ txn = Unused
    /\ rules = Unused
    /\ scoring = Unused
    /\ usage = Unused
    /\ otps = Unused
    /\ \E kinds \in [Tasks -> TaskKinds] :
          grok = [value |-> _grok_semaphore,
                  tasks |-> [t \in Tasks |-> NewTask(kinds[t])]]

GrokUnchanged ==
    UNCHANGED <<configVars, gray, queue, rec, txn, rules, scoring, usage, otps>>

\* the thread of the event loop is inside a synchronous create() call
InFlight == {t \in Tasks : grok.tasks[t].pc = "calling"}

ThreadFree == InFlight = {}

\* quiz.py:706, `async with _grok_semaphore:` when the counter is positive
\* (on arrival, or when a waiter is woken after a release)
AcquireSemaphore(t) ==
    /\ ThreadFree
    /\ grok.tasks[t].kind = "submit_quiz"
    /\ grok.tasks[t].pc \in {"start", "waiting"}
    /\ grok.value > 0
    /\ grok' = [value |-> grok.value - 1,
                tasks |-> [grok.tasks EXCEPT ![t].pc = "acquired",
                                             ![t].holds = TRUE]]
    /\ GrokUnchanged

\* quiz.py:706 when the counter is 0: the coroutine is suspended
WaitForSemaphore(t) ==
    /\ ThreadFree
    /\ grok.tasks[t].kind = "submit_quiz"
    /\ grok.tasks[t].pc = "start"
    /\ grok.value = 0
    /\ grok' = [grok EXCEPT !.tasks[t].pc = "waiting"]
    /\ GrokUnchanged

\* client.chat.completions.create(...) is entered: quiz.py:742 inside the
\* semaphore, report.py:473 and 601 and recommendation.py:569 without it
CreateCompletion(t) ==
    /\ ThreadFree
    /\ grok.tasks[t].pc =
          IF grok.tasks[t].kind = "submit_quiz" THEN "acquired" ELSE "start"
    /\ grok' = [grok EXCEPT !.tasks[t].pc = "calling",
                            !.tasks[t].attempts = @ + 1]
    /\ GrokUnchanged

\* quiz.py:739-766, what the loop does with the outcome of one attempt;
\* leaving the `async with` block, by return or by raise, releases
AfterAttempt(task, outcome) ==
    IF outcome = "response"
    THEN [task EXCEPT !.pc = "returned", !.holds = FALSE,
                      !.outcomes = Append(@, outcome)]
    ELSE LET retry_count == task.retry_count + 1 IN
         IF retry_count <= max_retries
         THEN [task EXCEPT !.pc = "sleeping", !.retry_count = retry_count,
                           !.last_error = task.attempts,
                           !.outcomes = Append(@, outcome),
                           !.waits = Append(@, wait_time(retry_count))]
         ELSE [task EXCEPT !.pc = "raised", !.retry_count = retry_count,
                           !.last_error = task.attempts,
                           !.outcomes = Append(@, outcome),
                           !.holds = FALSE]

\* the call returns or raises (API error, or the 180 s timeout)
CompletionReturns(t, outcome) ==
    /\ grok.tasks[t].pc = "calling"
    /\ IF grok.tasks[t].kind = "submit_quiz"
       THEN LET after == AfterAttempt(grok.tasks[t], outcome) IN
            grok' = [value |-> IF after.holds THEN grok.value
                               ELSE grok.value + 1,
                     tasks |-> [grok.tasks EXCEPT ![t] = after]]
       ELSE grok' = [grok EXCEPT
               !.tasks[t].pc =
                   IF outcome = "response" THEN "returned" ELSE "failed",
               !.tasks[t].outcomes = Append(@, outcome)]
    /\ GrokUnchanged

\* quiz.py:763, `await asyncio.sleep(wait_time)` is over; the semaphore was
\* held during the sleep
SleepEnds(t) ==
    /\ ThreadFree
    /\ grok.tasks[t].pc = "sleeping"
    /\ grok' = [grok EXCEPT !.tasks[t].pc = "acquired"]
    /\ GrokUnchanged

NextGrok ==
    \E t \in Tasks :
        \/ AcquireSemaphore(t)
        \/ WaitForSemaphore(t)
        \/ CreateCompletion(t)
        \/ \E outcome \in {"response", "error"} : CompletionReturns(t, outcome)
        \/ SleepEnds(t)

SpecGrok == InitGrok /\ [][NextGrok]_vars

\* C25: at most one chat-completion call is in flight, and every call in
\* flight is made by a coroutine that holds the global limiter
EveryCallHoldsTheLimiter ==
    /\ Cardinality(InFlight) <= 1
    /\ \A t \in InFlight : grok.tasks[t].holds

\* a report extraction calls the LLM while a quiz submission holds the limiter
\* in its back-off sleep
ExtractionCallsBesideHolder ==
    \E t, u \in Tasks :
        /\ grok.tasks[t].kind = "extract_with_ai"
        /\ grok.tasks[t].pc = "calling"
        /\ grok.tasks[u].pc = "sleeping"
        /\ grok.tasks[u].holds

\* the event loop runs every coroutine that is ready, a sleep ends, and a
\* call returns or raises no later than its timeout of 180 s (quiz.py:751)
SpecGrokFair == SpecGrok /\ WF_vars(NextGrok)

Submissions == {t \in Tasks : grok.tasks[t].kind = "submit_quiz"}

\* what the retry loop of one submission has done so far
RetryLoopBounded(task) ==
    /\ task.attempts <= 3
    /\ Len(task.waits) <= 2
    /\ \A k \in 1..Len(task.waits) : task.waits[k] = 2 * k
    /\ \A k \in 1..Len(task.outcomes) :
          task.outcomes[k] = "response" =>
              k = Len(task.outcomes) /\ task.pc = "returned"
    /\ task.pc = "returned" =>
          /\ task.outcomes[task.attempts] = "response"
          /\ Len(task.outcomes) = task.attempts
    /\ task.pc = "sleeping" =>
          /\ Len(task.waits) = task.attempts
          /\ task.outcomes[task.attempts] = "error"
    /\ task.pc = "raised" =>
          /\ task.attempts = 3
          /\ task.outcomes = <<"error", "error", "error">>
          /\ task.last_error = 3
    /\ task.pc = "acquired" => task.attempts < 3

\* C26: the LLM call of submit_quiz is attempted at most 3 times, the loop
\* stops at the first success, waits 2*k seconds after the k-th failure, raises
\* the last error after the third failure, and always terminates
RetryLoopStopsWithinThreeAttempts ==
    /\ [](\A t \in Submissions : RetryLoopBounded(grok.tasks[t]))
    /\ \A t \in Tasks :
          (grok.tasks[t].kind = "submit_quiz") ~>
              (grok.tasks[t].pc \in {"returned", "raised"})

\* a submission raised after its third failed attempt, having waited 2 s and 4 s
ThirdAttemptFailed ==
    \E t \in Submissions :
        /\ grok.tasks[t].pc = "raised"
        /\ grok.tasks[t].waits = <<2, 4>>

(***************************************************************************)
(* check_nutrient (the filter of RecommendationEngine.generate) against    *)
(* apply_safety_rules (the filter of filter_and_rank_candidates), on the   *)
(* same nutrient and profile.                                              *)
(***************************************************************************)
SafetyCandidates ==
    UNION {{candidates[i] : i \in DOMAIN candidates} :
              candidates \in CandidateLists}

InitSafety ==
    /\ configs = << >>
    /\ audit = << >>
    /\ result = Unused
    /\ gray = Unused
    /\ queue = Unused
    /\ rec = Unused
    /\ txn = Unused
    /\ rules \in [profile : RuleProfiles, candidate : SafetyCandidates,
                  safety_check : {<< >>}, rule_results : {<< >>}]
    /\ scoring = Unused
    /\ grok = Unused
    /\ usage = Unused
    /\ otps = Unused

SafetyUnchanged ==
    UNCHANGED <<configVars, gray, queue, rec, txn, scoring, serviceVars>>

\* rule_engine.py:583
CheckNutrient ==
    /\ rules.safety_check = << >>
    /\ rules' = [rules EXCEPT !.safety_check =
                    <<check_nutrient(rules.candidate.nutrient, rules.profile)>>]
    /\ SafetyUnchanged

\* rule_engine.py:626, on the list of the one candidate
ApplySafetyRules ==
    /\ rules.rule_results = << >>
    /\ rules' = [rules EXCEPT !.rule_results =
                    apply_safety_rules(rules.profile, <<rules.candidate>>)]
    /\ SafetyUnchanged

NextSafety == CheckNutrient \/ ApplySafetyRules

SpecSafety == InitSafety /\ [][NextSafety]_vars

BothFiltersApplied == rules.safety_check # << >> /\ rules.rule_results # << >>

\* C27: check_nutrient reports safe = false exactly when the merged result
\* of apply_safety_rules for the same nutrient and profile has action BLOCK
UnsafeIffMergedBlock ==
    BothFiltersApplied =>
        (~rules.safety_check[1].safe <=> rules.rule_results[1].action = "block")

\* both filters have run on a nutrient that a chronic-condition rule blocks
BlockedByBothFilters ==
    /\ BothFiltersApplied
    /\ ~rules.safety_check[1].safe
    /\ rules.safety_check[1].blocked_by # << >>
    /\ rules.rule_results[1].action = "block"
    /\ rules.profile.chronic_conditions # << >>

(* ---------------- reviewer and resolution time of an item -------------- *)

\* C28: a review item has no assigned reviewer exactly when its status is
\* PENDING, and has resolved_at set exactly when it is APPROVED or REJECTED
ReviewerAndResolutionFollowStatus ==
    \A id \in DOMAIN queue.reviews :
        /\ queue.reviews[id].assigned_to = Null
              <=> queue.reviews[id].status = "PENDING"
        /\ queue.reviews[id].resolved_at # None
              <=> queue.reviews[id].status \in ResolvedStatuses

\* unassign_reviewer has just put an item back to PENDING
UnassignedBackToPending ==
    /\ queue.result.op = "unassign_reviewer"
    /\ queue.result.outcome = "ok"
    /\ queue.reviews[queue.result.review_id].status = "PENDING"

(***************************************************************************)
(* UsageTracker.check_and_increment (services/usage_tracker.py), called by *)
(* submit_quiz before anything else.  Every request has its own            *)
(* AsyncSession; the SELECT and the commit are separate awaits, so         *)
(* requests interleave between them.  usage.rows is the committed ai_usage *)
(* table of the day (no unique constraint on user_identifier and           *)
(* usage_date), usage.requests the requests in progress, usage.succeeded   *)
(* the number of calls that returned "allowed" per user.                   *)
(***************************************************************************)
MaxCalls == 11

Users == {"203.0.113.7", "user-42"}

\* usage_tracker.py:129, the instance submit_quiz uses
daily_limit == 10

IdleRequest ==
    [pc |-> "idle", user_identifier |-> Null, usage |-> None,
     call_count |-> 0, outcome |-> Null]

InitUsage ==
    /\ configs = << >>
    /\ audit = << >>
    /\ result = Unused
    /\ gray = Unused
    /\ queue = Unused
    /\ rec = Unused
    /\ txn = Unused
    /\ rules = Unused
    /\ scoring = Unused
    /\ grok = Unused
    /\ otps = Unused
    /\ usage = [rows |-> << >>,
                requests |-> [s \in Sessions |-> IdleRequest],
                succeeded |-> [u \in Users |-> 0],
                calls |-> 0]

UsageUnchanged ==
    UNCHANGED <<configVars, gray, queue, rec, txn, rules, scoring, grok, otps>>

\* the rows the SELECT of lines 41-46 returns
rows_of(rows, user_identifier) ==
    {i \in DOMAIN rows : rows[i].user_identifier = user_identifier}

\* lines 39-47: the SELECT and scalar_one_or_none(), which raises
\* MultipleResultsFound on more than one row
SelectUsage(s, user_identifier) ==
    /\ usage.requests[s].pc = "idle"
    /\ usage.calls < MaxCalls
    /\ LET found == rows_of(usage.rows, user_identifier) IN
       usage' = [usage EXCEPT
          !.calls = @ + 1,
          !.requests[s] =
              IF Cardinality(found) > 1
              THEN [IdleRequest EXCEPT !.user_identifier = user_identifier,
                                       !.outcome = "MultipleResultsFound"]
              ELSE IF found = {}
              THEN [IdleRequest EXCEPT !.pc = "selected",
                                       !.user_identifier = user_identifier]
              ELSE LET i == CHOOSE i \in found : TRUE IN
                   [IdleRequest EXCEPT !.pc = "selected",
                                       !.user_identifier = user_identifier,
                                       !.usage = i,
                                       !.call_count = usage.rows[i].call_count]]
    /\ UsageUnchanged

\* line 66
OverLimit(call_count) == call_count >= daily_limit

\* lines 50-90 after the SELECT: INSERT a row with call_count 1, or raise 429,
\* or UPDATE the loaded row to the count that was read plus one; then commit
check_and_increment(u, s) ==
    LET request == u.requests[s] IN
    IF request.usage = None
    THEN [u EXCEPT
            !.rows = Append(@, [user_identifier |-> request.user_identifier,
                                call_count |-> 1]),
            !.succeeded[request.user_identifier] = @ + 1,
            !.requests[s].pc = "idle",
            !.requests[s].outcome = "allowed"]
    ELSE IF OverLimit(request.call_count)
    THEN [u EXCEPT !.requests[s].pc = "idle",
                   !.requests[s].outcome = "HTTP_429_TOO_MANY_REQUESTS"]
    ELSE [u EXCEPT
            !.rows[request.usage].call_count = request.call_count + 1,
            !.succeeded[request.user_identifier] = @ + 1,
            !.requests[s].pc = "idle",
            !.requests[s].outcome = "allowed"]

CommitUsage(s) ==
    /\ usage.requests[s].pc = "selected"
    /\ usage' = check_and_increment(usage, s)
    /\ UsageUnchanged

NextUsage ==
    \E s \in Sessions :
        \/ \E user_identifier \in Users : SelectUsage(s, user_identifier)
        \/ CommitUsage(s)

SpecUsage == InitUsage /\ [][NextUsage]_vars

\* C29: for each user and day, the number of check_and_increment calls that
\* succeed never exceeds daily_limit, under any interleaving
SucceededWithinDailyLimit ==
    \A u \in Users : usage.succeeded[u] <= daily_limit

(***************************************************************************)
(* OTP verification.  OTPService.verify_otp (services/otp_service.py, the  *)
(* one the auth routes call) keeps OTP records in the otp_codes table;     *)
(* AuthService.verify_otp (services/auth.py) keeps them in Redis under     *)
(* otp:{request_id}.  Both read the record, compare the code and then      *)
(* mark or delete the record, with awaits in between.  otps.codes is the   *)
(* committed table of one recipient and purpose in order of created_at,    *)
(* otps.redis the Redis entries by request_id, otps.calls the verify_otp   *)
(* calls in progress, otps.verified the successful calls per record.       *)
(***************************************************************************)
MaxOtps == 2

MaxVerifyCalls == 4

Codes == {"123456", "654321"}

\* otp_service.py:240-244
max_attempts == 3

\* core/config.py:55
otp_max_attempts == 5

\* the two implementations; a run of the model exercises one of them, their
\* stores are independent
OtpServices == {"OTPService", "AuthService"}

IdleCall ==
    [pc |-> "idle", service |-> Null, code |-> Null, otp |-> None,
     attempts |-> 0, outcome |-> Null]

InitOtp ==
    /\ configs = << >>
    /\ audit = << >>
    /\ result = Unused
    /\ gray = Unused
    /\ queue = Unused
    /\ rec = Unused
    /\ txn = Unused
    /\ rules = Unused
    /\ scoring = Unused
    /\ grok = Unused
    /\ usage = Unused
    /\ \E service \in OtpServices :
          otps = [service |-> service, codes |-> << >>, redis |-> << >>,
                  calls |-> [s \in Sessions |-> IdleCall],
                  verified |-> [used \in OtpServices |->
                                   [i \in 1..MaxOtps |-> 0]],
                  count |-> 0]

OtpUnchanged ==
    UNCHANGED <<configVars, gray, queue, rec, txn, rules, scoring, grok, usage>>

\* otp_service.py:35-68, the row create_otp commits
create_otp(code) ==
    /\ otps.service = "OTPService"
    /\ Len(otps.codes) < MaxOtps
    /\ otps' = [otps EXCEPT !.codes =
                   Append(@, [code |-> code, is_used |-> FALSE, attempts |-> 0,
                              expired |-> FALSE])]
    /\ OtpUnchanged

\* auth.py:117-136, the two keys send_otp stores; a key that is absent is << >>
send_otp(code) ==
    /\ otps.service = "AuthService"
    /\ Len(otps.redis) < MaxOtps
    /\ otps' = [otps EXCEPT !.redis =
                   Append(@, [otp |-> <<code>>, attempts |-> <<0>>])]
    /\ OtpUnchanged

\* ten minutes pass: utcnow() > expires_at for the row, the Redis keys expire
Expire(i) ==
    /\ \/ /\ otps.service = "OTPService"
          /\ i \in DOMAIN otps.codes
          /\ ~otps.codes[i].expired
          /\ otps' = [otps EXCEPT !.codes[i].expired = TRUE]
       \/ /\ otps.service = "AuthService"
          /\ i \in DOMAIN otps.redis
          /\ otps.redis[i].otp # << >>
          /\ otps' = [otps EXCEPT !.redis[i] =
                                      [otp |-> << >>, attempts |-> << >>]]
    /\ OtpUnchanged

\* otp_service.py:102-111: the newest row that is not used, or None
newest_unused(codes) ==
    LET unused == {i \in DOMAIN codes : ~codes[i].is_used}
    IN  IF unused = {} THEN None
        ELSE CHOOSE i \in unused : \A j \in unused : j <= i

\* otp_service.py:101-118, the SELECT of verify_otp
SelectOtp(s, code) ==
    /\ otps.service = "OTPService"
    /\ otps.calls[s].pc = "idle"
    /\ otps.count < MaxVerifyCalls
    /\ LET otp == newest_unused(otps.codes) IN
       otps' = [otps EXCEPT
          !.count = @ + 1,
          !.calls[s] =
              IF otp = None
              THEN [IdleCall EXCEPT !.service = "OTPService", !.code = code,
                                    !.outcome = "not found or used"]
              ELSE [IdleCall EXCEPT !.pc = "selected",
                                    !.service = "OTPService", !.code = code,
                                    !.otp = otp,
                                    !.attempts = otps.codes[otp].attempts]]
    /\ OtpUnchanged

\* otp_service.py:145-146
MarkUsed(row) == [row EXCEPT !.is_used = TRUE]

\* otp_service.py:120-150: the checks on the row that was read, then the
\* UPDATE and the commit
verify_otp(o, s) ==
    LET call == o.calls[s]
        row == o.codes[call.otp]
    IN  IF row.expired
        THEN [o EXCEPT !.calls[s].pc = "idle",
                       !.calls[s].outcome = "expired"]
        ELSE IF call.attempts >= max_attempts
        THEN [o EXCEPT !.calls[s].pc = "idle",
                       !.calls[s].outcome = "too many attempts"]
        ELSE IF row.code # call.code
        THEN [o EXCEPT !.codes[call.otp].attempts = call.attempts + 1,
                       !.calls[s].pc = "idle",
                       !.calls[s].outcome = "wrong code"]
        ELSE [o EXCEPT !.codes[call.otp] = MarkUsed(row),
                       !.verified["OTPService"][call.otp] = @ + 1,
                       !.calls[s].pc = "idle",
                       !.calls[s].outcome = "True"]

CommitOtp(s) ==
    /\ otps.service = "OTPService"
    /\ otps.calls[s].pc = "selected"
    /\ otps' = verify_otp(otps, s)
    /\ OtpUnchanged

\* auth.py:177-182, GET otp_attempts:{request_id}
GetAttempts(s, request_id, code) ==
    /\ otps.service = "AuthService"
    /\ otps.calls[s].pc = "idle"
    /\ otps.count < MaxVerifyCalls
    /\ request_id \in DOMAIN otps.redis
    /\ LET attempts_str == otps.redis[request_id].attempts
           attempts == IF attempts_str = << >> THEN 0 ELSE attempts_str[1]
       IN  otps' = [otps EXCEPT
              !.count = @ + 1,
              !.calls[s] =
                  IF attempts >= otp_max_attempts
                  THEN [IdleCall EXCEPT !.service = "AuthService",
                                        !.code = code,
                                        !.outcome = "attempts exceeded"]
                  ELSE [IdleCall EXCEPT !.pc = "attempts_read",
                                        !.service = "AuthService",
                                        !.code = code, !.otp = request_id,
                                        !.attempts = attempts]]
    /\ OtpUnchanged

\* auth.py:184-194, GET otp:{request_id} and the comparison
GetOtp(s) ==
    /\ otps.service = "AuthService"
    /\ otps.calls[s].pc = "attempts_read"
    /\ LET otp_data == otps.redis[otps.calls[s].otp].otp IN
       otps' = [otps EXCEPT !.calls[s] =
          IF otp_data = << >>
          THEN [@ EXCEPT !.pc = "idle", !.outcome = "expired or not found"]
          ELSE IF otps.calls[s].code # otp_data[1]
          THEN [@ EXCEPT !.pc = "mismatch"]
          ELSE [@ EXCEPT !.pc = "matched"]]
    /\ OtpUnchanged

\* auth.py:195-219: INCR of the attempts and raise, or the two DELETEs and the
\* token
FinishAuth(s) ==
    /\ otps.service = "AuthService"
    /\ otps.calls[s].pc \in {"mismatch", "matched"}
    /\ LET request_id == otps.calls[s].otp
           entry == otps.redis[request_id]
       IN  otps' =
              IF otps.calls[s].pc = "mismatch"
              THEN [otps EXCEPT
                      !.redis[request_id].attempts =
                          IF entry.attempts = << >> THEN <<1>>
                          ELSE <<entry.attempts[1] + 1>>,
                      !.calls[s].pc = "idle",
                      !.calls[s].outcome = "invalid code"]
              ELSE [otps EXCEPT
                      !.redis[request_id] = [otp |-> << >>, attempts |-> << >>],
                      !.verified["AuthService"][request_id] = @ + 1,
                      !.calls[s].pc = "idle",
                      !.calls[s].outcome = "AuthResult"]
    /\ OtpUnchanged

NextOtp ==
    \/ \E code \in Codes : create_otp(code)
    \/ \E code \in Codes : send_otp(code)
    \/ \E i \in 1..MaxOtps : Expire(i)
    \/ \E s \in Sessions, code \in Codes : SelectOtp(s, code)
    \/ \E s \in Sessions : CommitOtp(s)
    \/ \E s \in Sessions, request_id \in 1..MaxOtps, code \in Codes :
          GetAttempts(s, request_id, code)
    \/ \E s \in Sessions : GetOtp(s)
    \/ \E s \in Sessions : FinishAuth(s)

SpecOtp == InitOtp /\ [][NextOtp]_vars

\* C30: an OTP record authenticates at most one verify_otp call, also among
\* concurrent calls
OtpVerifiesAtMostOnce ==
    \A service \in OtpServices, i \in 1..MaxOtps :
        otps.verified[service][i] <= 1

====
